---- MODULE Spec2Model ----
(***************************************************************************)
(* Peekaboo attendance / salary application.                               *)
(*                                                                         *)
(* The repository holds two builds of the application:                     *)
(*   "cloud"  : App with cloud sync (src/types.ts:254-477), processPayroll *)
(*              of src/types.ts:480-743, PayrollResults of                 *)
(*              src/unnamed/part_001, DayShift of src/types.ts:20-43;      *)
(*   "upload" : App of src/types.ts:105-251, processPayroll of             *)
(*              src/services/payrollProcessor.ts, PayrollResults of        *)
(*              src/components/PayrollResults.tsx, DayShift of             *)
(*              src/unnamed/part_002:18-39 (no manualPenalty, no           *)
(*              durationHours).                                            *)
(*                                                                         *)
(* Units.  Texts are sequences of one-character strings.  Instants are     *)
(* seconds of local wall-clock time since 1970-01-01 00:00 (the local zone *)
(* is taken to be UTC, no daylight saving).  latenessMinutes is in whole   *)
(* minutes as in the code; workHours, durationHours, otHours and           *)
(* earlyMinutes hold the same quantity as the code in SECONDS.  Money is   *)
(* in units of 1/JD of a dinar, chosen so that 1.56 JD per hour is a whole *)
(* number of units per second; arithmetic is exact (the rounding of IEEE   *)
(* doubles is not modelled).                                               *)
(***************************************************************************)
EXTENDS Integers, Sequences, FiniteSets, TLC

\* ------------------------------------------------------------------ options
\* null / undefined / NaN are the empty sequence, a value v is <<v>>.
Null == <<>>
Some(v) == <<v>>
IsNull(o) == o = <<>>
Val(o) == o[1]

SetMin(S) == CHOOSE x \in S : \A y \in S : x <= y
SetMax(S) == CHOOSE x \in S : \A y \in S : x >= y
Max2(a, b) == IF a >= b THEN a ELSE b

\* -------------------------------------------------------------------- texts
DigitChars == <<"0", "1", "2", "3", "4", "5", "6", "7", "8", "9">>
IsDigit(c) == c \in {"0", "1", "2", "3", "4", "5", "6", "7", "8", "9"}
DigitVal(c) == (CHOOSE i \in 1..10 : DigitChars[i] = c) - 1
IsSpace(c) == c = " "

UpperChars == <<"A", "B", "C", "D", "E", "F", "G", "H", "I", "J", "K", "L", "M",
                "N", "O", "P", "Q", "R", "S", "T", "U", "V", "W", "X", "Y", "Z">>
LowerChars == <<"a", "b", "c", "d", "e", "f", "g", "h", "i", "j", "k", "l", "m",
                "n", "o", "p", "q", "r", "s", "t", "u", "v", "w", "x", "y", "z">>
LowerChar(c) ==
  IF \E i \in 1..26 : UpperChars[i] = c
  THEN LowerChars[CHOOSE i \in 1..26 : UpperChars[i] = c]
  ELSE c
UpperChar(c) ==
  IF \E i \in 1..26 : LowerChars[i] = c
  THEN UpperChars[CHOOSE i \in 1..26 : LowerChars[i] = c]
  ELSE c

\* String.prototype.toLowerCase
toLowerCase(t) == [i \in 1..Len(t) |-> LowerChar(t[i])]

\* String.prototype.trim
trim(t) ==
  LET idx == {i \in 1..Len(t) : ~IsSpace(t[i])}
  IN  IF idx = {} THEN <<>> ELSE SubSeq(t, SetMin(idx), SetMax(idx))

\* the characters of t at the positions where keep holds, in order
RECURSIVE PickFrom(_, _, _)
PickFrom(t, keep, i) ==
  IF i > Len(t) THEN <<>>
  ELSE (IF i \in keep THEN <<t[i]>> ELSE <<>>) \o PickFrom(t, keep, i + 1)

\* replace(/\s+/g, ' ')
collapseSpaces(t) ==
  PickFrom(t, {i \in 1..Len(t) : ~IsSpace(t[i]) \/ i = 1 \/ ~IsSpace(t[i - 1])}, 1)

\* replace(/^"(.*)"$/, '$1')
stripQuotes(t) ==
  IF Len(t) >= 2 /\ t[1] = "\"" /\ t[Len(t)] = "\"" THEN SubSeq(t, 2, Len(t) - 1) ELSE t

\* value of a sequence of digit characters
RECURSIVE DigitsValue(_)
DigitsValue(t) ==
  IF t = <<>> THEN 0 ELSE 10 * DigitsValue(SubSeq(t, 1, Len(t) - 1)) + DigitVal(t[Len(t)])

\* length of the longest run of characters satisfying a test that starts at i
RECURSIVE DigitRun(_, _)
DigitRun(t, i) == IF i <= Len(t) /\ IsDigit(t[i]) THEN 1 + DigitRun(t, i + 1) ELSE 0
RECURSIVE SpaceRun(_, _)
SpaceRun(t, i) == IF i <= Len(t) /\ IsSpace(t[i]) THEN 1 + SpaceRun(t, i + 1) ELSE 0

\* the longest run of digits of t that starts at position d
Digits(t, d) == SubSeq(t, d, d + DigitRun(t, d) - 1)
\* an optional sign at position s: its length and its value
SignLen(t, s) == IF s <= Len(t) /\ t[s] \in {"-", "+"} THEN 1 ELSE 0
SignOf(t, s) == IF s <= Len(t) /\ t[s] = "-" THEN -1 ELSE 1

\* parseInt(text): leading blanks, an optional sign, the longest digit prefix
parseIntDigits(sign, digits) == IF digits = <<>> THEN Null ELSE Some(sign * DigitsValue(digits))
parseIntAt(t, s) == parseIntDigits(SignOf(t, s), Digits(t, s + SignLen(t, s)))
parseInt(t) == parseIntAt(t, SpaceRun(t, 1) + 1)

\* String.prototype.split on a separator class, one separator per cut
RECURSIVE SplitOn(_, _)
SplitOn(t, seps) ==
  LET cut == {i \in 1..Len(t) : t[i] \in seps}
  IN  IF cut = {} THEN <<t>>
      ELSE <<SubSeq(t, 1, SetMin(cut) - 1)>>
             \o SplitOn(SubSeq(t, SetMin(cut) + 1, Len(t)), seps)

\* String.prototype.split on /[...]+/ : a run of separators is one cut
RECURSIVE SplitOnRuns(_, _)
SplitOnRuns(t, seps) ==
  LET cut == {i \in 1..Len(t) : t[i] \in seps}
      first == SetMin(cut)
      after == {i \in first..Len(t) : t[i] \notin seps}
  IN  IF cut = {} THEN <<t>>
      ELSE <<SubSeq(t, 1, first - 1)>>
             \o (IF after = {} THEN <<(<<>>)>>
                 ELSE SplitOnRuns(SubSeq(t, SetMin(after), Len(t)), seps))

\* ----------------------------------------------------------------- calendar
SecondsPerMinute == 6 * 10
SecondsPerHour == 60 * SecondsPerMinute
SecondsPerDay == 24 * SecondsPerHour

\* days from 1970-01-01 to the civil date y-m-d (m in 1..12, any d)
DaysOfEra(era, yoe, doy) ==
  era * 146097 + yoe * 365 + (yoe \div 4) - (yoe \div 100) + doy - 719468
DaysOfYear(yy, mp, d) == DaysOfEra(yy \div 400, yy % 400, ((153 * mp + 2) \div 5) + d - 1)
DaysFromCivil(y, m, d) ==
  DaysOfYear(IF m <= 2 THEN y - 1 ELSE y, IF m > 2 THEN m - 3 ELSE m + 9, d)

\* the civil date <<y, m, d>> of a day number
CivilOfMonth(y, doy, mp) ==
  <<y + (IF mp >= 10 THEN 1 ELSE 0), IF mp < 10 THEN mp + 3 ELSE mp - 9,
    doy - ((153 * mp + 2) \div 5) + 1>>
CivilOfDay(y, doy) == CivilOfMonth(y, doy, (5 * doy + 2) \div 153)
CivilOfYear(era, doe, yoe) ==
  CivilOfDay(yoe + era * 400, doe - (365 * yoe + (yoe \div 4) - (yoe \div 100)))
CivilOfEra(era, doe) ==
  CivilOfYear(era, doe, (doe - (doe \div 1460) + (doe \div 36524) - (doe \div 146096)) \div 365)
CivilFromDays(n) == CivilOfEra((n + 719468) \div 146097, (n + 719468) % 146097)

IsLeap(y) == (y % 4 = 0 /\ y % 100 # 0) \/ y % 400 = 0
DaysInMonth(y, m) ==
  IF m = 2 THEN (IF IsLeap(y) THEN 29 ELSE 28)
  ELSE IF m \in {4, 6, 9, 11} THEN 30 ELSE 31

\* new Date(year, monthIndex, day): local midnight, out-of-range parts carry over
FullYear(y) == IF y >= 0 /\ y <= 99 THEN 1900 + y ELSE y
NewDate(y, monthIndex, d) ==
  (DaysFromCivil(FullYear(y) + (monthIndex \div 12), (monthIndex % 12) + 1, 1) + d - 1)
    * SecondsPerDay

DayOf(instant) == instant \div SecondsPerDay
\* Date.prototype.getHours / getMinutes / getFullYear, date-fns getDay
getHours(instant) == (instant % SecondsPerDay) \div SecondsPerHour
getMinutes(instant) == (instant % SecondsPerHour) \div SecondsPerMinute
getFullYear(instant) == CivilFromDays(DayOf(instant))[1]
getDay(instant) == (DayOf(instant) + 4) % 7


\* --------------------------------------------------------------------- money
\* one dinar, in model units: 1.56 JD per hour is 13 units per second
JD == 3 * 10000
\* otPay = otHours * 1.56
OT_RATE == (156 * JD) \div (100 * SecondsPerHour)

\* parseFloat on a text: optional sign, digits, optional fraction; NaN is Null.
\* Amounts are kept to four decimals (JD \div 10^k is whole for k <= 4).
RECURSIVE Pow10(_)
Pow10(k) == IF k = 0 THEN 1 ELSE 10 * Pow10(k - 1)
FractionAt(t, q) == IF q <= Len(t) /\ t[q] = "." THEN Digits(t, q + 1) ELSE <<>>
parseFloatParts(sign, whole, frac) ==
  IF whole = <<>> /\ frac = <<>> THEN Null
  ELSE Some(sign * (DigitsValue(whole) * JD + ((DigitsValue(frac) * JD) \div Pow10(Len(frac)))))
parseFloatWhole(t, p, sign, whole) == parseFloatParts(sign, whole, FractionAt(t, p + Len(whole)))
parseFloatAt(t, s) ==
  parseFloatWhole(t, s + SignLen(t, s), SignOf(t, s), Digits(t, s + SignLen(t, s)))
parseFloat(t) == parseFloatAt(t, SpaceRun(t, 1) + 1)

\* val.toString().replace(/,/g, '').replace(/[^\d.-]/g, '')
cleanNumber(t) == SelectSeq(t, LAMBDA c : IsDigit(c) \/ c \in {".", "-"})

\* isNaN(num) ? 0 : num
OrZero(num) == IF IsNull(num) THEN 0 ELSE Val(num)

parseCurrency(val) == IF val = <<>> THEN 0 ELSE OrZero(parseFloat(cleanNumber(val)))

\* ---------------------------------------------------------------------- time
\* /(\d{1,2})[:.](\d{1,2})(?:[:.](\d{1,2}))?\s*(AM|PM)?/i tried at position i
\* with a first group of n1 digits; Null when it does not match there
TimeSeps == {":", "."}
Upto2(n) == IF n >= 2 THEN 2 ELSE n
\* digits of an optional third group whose separator would be at position k
SecondsRun(t, k) == IF k + 1 <= Len(t) /\ t[k] \in TimeSeps THEN Upto2(DigitRun(t, k + 1)) ELSE 0
\* \s*(AM|PM)? from position e on, upper-cased; empty when absent
MeridiemAt(t, a) ==
  IF a + 1 <= Len(t) /\ UpperChar(t[a]) \in {"A", "P"} /\ UpperChar(t[a + 1]) = "M"
  THEN <<UpperChar(t[a]), "M">> ELSE <<>>
MeridiemAfter(t, e) == MeridiemAt(t, e + SpaceRun(t, e))
\* the groups of a match: n1 digits at i, n2 digits at j, n3 digits after them
TimeGroups(t, i, n1, j, n2, n3) ==
  [h |-> DigitsValue(SubSeq(t, i, i + n1 - 1)),
   m |-> DigitsValue(SubSeq(t, j, j + n2 - 1)),
   s |-> DigitsValue(SubSeq(t, j + n2 + 1, j + n2 + n3)),
   ampm |-> MeridiemAfter(t, IF n3 > 0 THEN j + n2 + 1 + n3 ELSE j + n2)]
TimeFromMinutes(t, i, n1, j, n2) == TimeGroups(t, i, n1, j, n2, SecondsRun(t, j + n2))
MatchTimeAt(t, i, n1) ==
  IF DigitRun(t, i) >= n1 /\ i + n1 <= Len(t) /\ t[i + n1] \in TimeSeps
     /\ DigitRun(t, i + n1 + 1) >= 1
  THEN Some(TimeFromMinutes(t, i, n1, i + n1 + 1, Upto2(DigitRun(t, i + n1 + 1))))
  ELSE Null

\* a || b on options
Prefer(a, b) == IF IsNull(a) THEN b ELSE a

\* the match at position i, the two-digit first group tried before the one-digit one
MatchTime(t, i) == Prefer(MatchTimeAt(t, i, 2), MatchTimeAt(t, i, 1))
\* the leftmost match
FirstMatch(t, hits) == IF hits = {} THEN Null ELSE MatchTime(t, SetMin(hits))
RegexTime(t) == FirstMatch(t, {i \in 1..Len(t) : ~IsNull(MatchTime(t, i))})

hours24(h, ampm) ==
  IF ampm = <<"P", "M">> /\ h < 12 THEN h + 12
  ELSE IF ampm = <<"A", "M">> /\ h = 12 THEN 0
  ELSE h
timeOfMatch(match) ==
  IF IsNull(match) THEN Null
  ELSE Some([hours |-> hours24(Val(match).h, Val(match).ampm),
             minutes |-> Val(match).m, seconds |-> Val(match).s])
extractTimeComponents(timeStr) ==
  IF timeStr = <<>> \/ trim(timeStr) = <<>> THEN Null ELSE timeOfMatch(RegexTime(trim(timeStr)))

\* d.setHours(hours, minutes, seconds, 0) on a copy of date
setTimeOnDate(date, hours, minutes, seconds) ==
  DayOf(date) * SecondsPerDay + hours * SecondsPerHour + minutes * SecondsPerMinute + seconds

startOfDayNative(date) == DayOf(date) * SecondsPerDay

\* date-fns format(date, 'yyyy-MM-dd'): the civil date <<y, m, d>> of the instant
formatYMD(date) == CivilFromDays(DayOf(date))

\* ---------------------------------------------------------------------- date
AllDigits(t) == t # <<>> /\ \A i \in 1..Len(t) : IsDigit(t[i])

\* the local midnight of a calendar date that exists, else Invalid Date
CivilDate(y, m, d) ==
  IF m \in 1..12 /\ d >= 1 /\ d <= DaysInMonth(y, m) THEN Some(NewDate(y, m - 1, d)) ELSE Null

\* new Date(text).  Only the ISO form yyyy-MM-dd is standard; it reads as UTC
\* midnight, which is local midnight here.  Every other text of the model's
\* inputs is one the engines reject (Invalid Date).
NativeDate(t) ==
  IF Len(t) = 10 /\ t[5] = "-" /\ t[8] = "-"
     /\ AllDigits(SubSeq(t, 1, 4)) /\ AllDigits(SubSeq(t, 6, 7)) /\ AllDigits(SubSeq(t, 9, 10))
  THEN CivilDate(DigitsValue(SubSeq(t, 1, 4)), DigitsValue(SubSeq(t, 6, 7)),
                 DigitsValue(SubSeq(t, 9, 10)))
  ELSE Null

\* date-fns parse(text, pattern, now) for the numeric patterns: three digit
\* groups in the given order ("y", "m", "d") around one separator character
PartOf(parts, order, what) == parts[CHOOSE i \in 1..3 : order[i] = what]
PatternDate(y, m, d) ==
  IF AllDigits(y) /\ AllDigits(m) /\ AllDigits(d) /\ Len(y) <= 4 /\ Len(m) <= 2 /\ Len(d) <= 2
  THEN CivilDate(DigitsValue(y), DigitsValue(m), DigitsValue(d)) ELSE Null
PartsDate(parts, order) ==
  IF Len(parts) = 3
  THEN PatternDate(PartOf(parts, order, "y"), PartOf(parts, order, "m"), PartOf(parts, order, "d"))
  ELSE Null
ParsePattern(t, order, sep) == PartsDate(SplitOn(t, {sep}), order)

\* 'yyyy-MM-dd', 'dd/MM/yyyy', 'MM/dd/yyyy', 'd/M/yyyy', 'dd-MM-yyyy', 'dd.MM.yyyy';
\* 'MMMM d, yyyy' and 'MMM d, yyyy' need a month name, which no text of the
\* model's inputs holds
DateFormats ==
  << <<(<<"y", "m", "d">>), "-">>, <<(<<"d", "m", "y">>), "/">>, <<(<<"m", "d", "y">>), "/">>,
     <<(<<"d", "m", "y">>), "/">>, <<(<<"d", "m", "y">>), "-">>, <<(<<"d", "m", "y">>), ".">> >>

\* isValid(d) && d.getFullYear() > 2000
After2000(d) == ~IsNull(d) /\ getFullYear(Val(d)) > 2000
ParseFormat(cleaned, f) == ParsePattern(cleaned, f[1], f[2])
\* the first format of the list that yields such a date
FirstFormat(cleaned, hits) ==
  IF hits = {} THEN Null ELSE ParseFormat(cleaned, DateFormats[SetMin(hits)])
ParseFormats(cleaned) ==
  FirstFormat(cleaned, {i \in 1..Len(DateFormats) : After2000(ParseFormat(cleaned, DateFormats[i]))})

\* new Date(a, b - 1, c) from three parseInt results; Invalid Date when one is NaN
DateFromParts(a, b, c) ==
  IF IsNull(a) \/ IsNull(b) \/ IsNull(c) THEN Null
  ELSE Some(NewDate(Val(a), Val(b) - 1, Val(c)))
\* if (p > 1000) { d = new Date(p, ...); if (isValid(d)) return d; }
Over1000(p) == ~IsNull(p) /\ Val(p) > 1000
YearFirst(p0, p1, p2) == IF Over1000(p0) THEN DateFromParts(p0, p1, p2) ELSE Null
YearLast(p0, p1, p2) == IF Over1000(p2) THEN DateFromParts(p2, p1, p0) ELSE Null

\* src/types.ts:526-533
SplitDate(parts) ==
  IF Len(parts) >= 3
  THEN Prefer(YearFirst(parseInt(parts[1]), parseInt(parts[2]), parseInt(parts[3])),
              YearLast(parseInt(parts[1]), parseInt(parts[2]), parseInt(parts[3])))
  ELSE Null
parseCleaned(cleaned) ==
  Prefer(NativeDate(cleaned),
         Prefer(ParseFormats(cleaned), SplitDate(SplitOnRuns(cleaned, {"-", "/", ".", " ", ","}))))
robustParseDate(dateStr) ==
  IF dateStr = <<>> THEN Null ELSE parseCleaned(collapseSpaces(stripQuotes(trim(dateStr))))

\* src/services/payrollProcessor.ts:44-63
MonthFirst(p0, p1, p2) == DateFromParts(p2, p0, p1)
SplitDate_services(parts) ==
  IF Len(parts) = 3
  THEN Prefer(YearFirst(parseInt(parts[1]), parseInt(parts[2]), parseInt(parts[3])),
              Prefer(YearLast(parseInt(parts[1]), parseInt(parts[2]), parseInt(parts[3])),
                     MonthFirst(parseInt(parts[1]), parseInt(parts[2]), parseInt(parts[3]))))
  ELSE Null
parseCleaned_services(cleaned) ==
  Prefer(NativeDate(cleaned), SplitDate_services(SplitOn(cleaned, {"-", "/", "."})))
\* native parse, then the manual split only
robustParseDate_services(dateStr) ==
  IF dateStr = <<>> THEN Null ELSE parseCleaned_services(stripQuotes(trim(dateStr)))


\* ------------------------------------------------------------ shift calculator
\* date-fns addDays(date, amount) with amount = num/den: the day of the month is
\* set to getDate() + amount, and Date.prototype.setDate keeps the integer part
\* of its argument (MakeDay applies ToIntegerOrInfinity)
addDays(date, num, den) == date + (num \div den) * SecondsPerDay

\* date-fns differenceInMinutes(later, earlier): whole minutes, rounded toward zero
differenceInMinutes(later, earlier) ==
  LET diff == later - earlier
  IN  IF diff >= 0 THEN diff \div SecondsPerMinute ELSE -((-diff) \div SecondsPerMinute)

totalMinutesOfDay(actualIn) == getHours(actualIn) * 60 + getMinutes(actualIn)

\* a faulty variant of shiftTypeOf: 12:30 itself falls to the afternoon shift
shiftTypeOf_strict(actualIn) ==
  IF totalMinutesOfDay(actualIn) < 10 * 60 + 30 THEN "A"
  ELSE IF totalMinutesOfDay(actualIn) < 12 * 60 + 30 THEN "C"
  ELSE "B"

shiftTypeOf(actualIn) ==
  IF totalMinutesOfDay(actualIn) < 10 * 60 + 30 THEN "A"
  ELSE IF totalMinutesOfDay(actualIn) <= 12 * 60 + 30 THEN "C"
  ELSE "B"

shiftHourOf(actualIn) ==
  IF totalMinutesOfDay(actualIn) < 10 * 60 + 30 THEN 10
  ELSE IF totalMinutesOfDay(actualIn) <= 12 * 60 + 30 THEN 11
  ELSE IF getDay(actualIn) = 4 \/ getDay(actualIn) = 5 THEN 15 ELSE 14
shiftStartOf(actualIn) == setTimeOnDate(startOfDayNative(actualIn), shiftHourOf(actualIn), 0, 0)

\* a faulty variant of latenessOf: an early arrival has a negative lateness
latenessOf_signed(actualIn, shiftStart) == differenceInMinutes(actualIn, shiftStart)

\* Math.max(0, differenceInMinutes(actualIn, shiftStart))
latenessOf(actualIn, shiftStart) == Max2(0, differenceInMinutes(actualIn, shiftStart))

\* a faulty variant of attendancePenaltyOf: the top tier starts after one hour
attendancePenaltyOf_late(latenessMinutes) ==
  IF latenessMinutes > 60 THEN 10 * JD
  ELSE IF latenessMinutes >= 20 THEN 5 * JD
  ELSE IF latenessMinutes >= 10 THEN 3 * JD
  ELSE 0

attendancePenaltyOf(latenessMinutes) ==
  IF latenessMinutes >= 60 THEN 10 * JD
  ELSE IF latenessMinutes >= 20 THEN 5 * JD
  ELSE IF latenessMinutes >= 10 THEN 3 * JD
  ELSE 0

BREAK_HOURS == 1 * SecondsPerHour
NINE_HOURS == 9 * SecondsPerHour
STANDARD_PAY == 10 * JD

\* the texts of a column that parse as a time, in row order
parsedTimes(records, column) ==
  SelectSeq([i \in 1..Len(records) |-> extractTimeComponents(records[i][column])],
            LAMBDA t : ~IsNull(t))

instantsOn(dateObj, times) ==
  {setTimeOnDate(dateObj, Val(times[i]).hours, Val(times[i]).minutes, Val(times[i]).seconds) :
     i \in 1..Len(times)}

RECURSIVE SumSeq(_)
SumSeq(q) == IF q = <<>> THEN 0 ELSE q[1] + SumSeq(Tail(q))

\* if (actualOut < actualIn) actualOut = addDays(actualOut, 1)
rollOver(actualIn, actualOut) == IF actualOut < actualIn THEN addDays(actualOut, 1, 1) ELSE actualOut
actualOutOf(actualIn, datesOut) ==
  rollOver(actualIn, IF datesOut # {} THEN SetMax(datesOut) ELSE addDays(actualIn, 375, 1000))

dailyPaidOf(records) == SumSeq([i \in 1..Len(records) |-> parseCurrency(records[i].paid)])
manualPenaltyOf(records) == SumSeq([i \in 1..Len(records) |-> parseCurrency(records[i].penalty)])
datesOf(dateObj, records, column) == instantsOn(dateObj, parsedTimes(records, column))

\* a faulty variant of otHoursOf: no floor at zero
otHoursOf_unfloored(rawWorkHours) == rawWorkHours - NINE_HOURS

\* Math.max(0, rawWorkHours - 9)
otHoursOf(rawWorkHours) == Max2(0, rawWorkHours - NINE_HOURS)

\* a faulty variant of otPayOf: only whole overtime hours are paid
otPayOf_wholeHours(otHours) == (otHours \div SecondsPerHour) * SecondsPerHour * OT_RATE

\* otHours * 1.56
otPayOf(otHours) == otHours * OT_RATE

\* src/types.ts:597-604, a group without a check-in
placeholderShift(id, displayName, dateObj, dailyPaid, manualPenalty) ==
  [id |-> id, name |-> displayName, date |-> formatYMD(dateObj),
   actualIn |-> dateObj, actualOut |-> dateObj, shiftType |-> "A",
   shiftStart |-> dateObj, latenessMinutes |-> 0, earlyMinutes |-> 0,
   workHours |-> 0, durationHours |-> 0, otHours |-> 0, otPay |-> 0,
   standardPay |-> 0, attendancePenalty |-> 0, manualPenalty |-> manualPenalty,
   manualAdjustment |-> 0, penaltyWaiver |-> 0, adjustmentNote |-> Null,
   netPay |-> 0, amountPaid |-> dailyPaid, balanceRemaining |-> -dailyPaid]

\* src/types.ts:614-649, from the first arrival and the departure
timedShift(id, displayName, dateObj, dailyPaid, manualPenalty, actualIn, actualOut) ==
  LET shiftStart == shiftStartOf(actualIn)
      latenessMinutes == latenessOf(actualIn, shiftStart)
      attendancePenalty == attendancePenaltyOf(latenessMinutes)
      rawWorkHours == actualOut - actualIn
      otHours == otHoursOf(rawWorkHours)
      otPay == otPayOf(otHours)
      netPay == STANDARD_PAY + otPay - attendancePenalty - manualPenalty
  IN  [id |-> id, name |-> displayName, date |-> formatYMD(dateObj),
       actualIn |-> actualIn, actualOut |-> actualOut, shiftType |-> shiftTypeOf(actualIn),
       shiftStart |-> shiftStart, latenessMinutes |-> latenessMinutes,
       earlyMinutes |-> Max2(0, NINE_HOURS - rawWorkHours),
       workHours |-> rawWorkHours, durationHours |-> Max2(0, rawWorkHours - BREAK_HOURS),
       otHours |-> otHours, otPay |-> otPay, standardPay |-> STANDARD_PAY,
       attendancePenalty |-> attendancePenalty, manualPenalty |-> manualPenalty,
       manualAdjustment |-> 0, penaltyWaiver |-> 0, adjustmentNote |-> Null,
       netPay |-> netPay, amountPaid |-> dailyPaid, balanceRemaining |-> netPay - dailyPaid]

punchedShift(id, displayName, dateObj, dailyPaid, manualPenalty, datesIn, datesOut) ==
  IF datesIn = {}
  THEN placeholderShift(id, displayName, dateObj, dailyPaid, manualPenalty)
  ELSE timedShift(id, displayName, dateObj, dailyPaid, manualPenalty,
                  SetMin(datesIn), actualOutOf(SetMin(datesIn), datesOut))

\* src/types.ts:584-651, one (name, date) group
dayShiftOf(id, displayName, dateObj, records) ==
  punchedShift(id, displayName, dateObj, dailyPaidOf(records), manualPenaltyOf(records),
               datesOf(dateObj, records, "checkIn"), datesOf(dateObj, records, "checkOut"))

\* r[mapping.paid] || '0', cleaned and parsed
paidOf_services(paid) == OrZero(parseFloat(cleanNumber(IF paid = <<>> THEN <<"0">> ELSE paid)))
dailyPaidOf_services(records) ==
  SumSeq([i \in 1..Len(records) |-> paidOf_services(records[i].paid)])

\* src/services/payrollProcessor.ts:111-168, from the first arrival and the departure
timedShift_services(id, displayName, dateObj, dailyPaid, actualIn, actualOut) ==
  LET shiftStart == shiftStartOf(actualIn)
      latenessMinutes == latenessOf(actualIn, shiftStart)
      attendancePenalty == attendancePenaltyOf(latenessMinutes)
      workHours == actualOut - actualIn
      otHours == otHoursOf(workHours)
      otPay == otPayOf(otHours)
      netPay == STANDARD_PAY + otPay - attendancePenalty
  IN  [id |-> id, name |-> displayName, date |-> formatYMD(dateObj),
       actualIn |-> actualIn, actualOut |-> actualOut, shiftType |-> shiftTypeOf(actualIn),
       shiftStart |-> shiftStart, latenessMinutes |-> latenessMinutes,
       earlyMinutes |-> Max2(0, NINE_HOURS - workHours), workHours |-> workHours,
       otHours |-> otHours, otPay |-> otPay, standardPay |-> STANDARD_PAY,
       attendancePenalty |-> attendancePenalty, manualAdjustment |-> 0, penaltyWaiver |-> 0,
       adjustmentNote |-> Null, netPay |-> netPay, amountPaid |-> dailyPaid,
       balanceRemaining |-> netPay - dailyPaid]

punchedShift_services(id, displayName, dateObj, dailyPaid, datesIn, datesOut) ==
  timedShift_services(id, displayName, dateObj, dailyPaid,
                      SetMin(datesIn), actualOutOf(SetMin(datesIn), datesOut))

\* src/services/payrollProcessor.ts:94-169, one group that has a check-in
dayShiftOf_services(id, displayName, dateObj, records) ==
  punchedShift_services(id, displayName, dateObj, dailyPaidOf_services(records),
                        datesOf(dateObj, records, "checkIn"), datesOf(dateObj, records, "checkOut"))


\* ------------------------------------------------------------------ collation
\* String.prototype.localeCompare on the model's alphabet: blank, "_", digits,
\* then letters by alphabet position; at equal letters lower case sorts first
PrimaryRank(c) ==
  IF c = " " THEN 0
  ELSE IF c = "_" THEN 1
  ELSE IF IsDigit(c) THEN 2 + DigitVal(c)
  ELSE IF \E i \in 1..26 : LowerChars[i] = LowerChar(c)
  THEN 12 + (CHOOSE i \in 1..26 : LowerChars[i] = LowerChar(c))
  ELSE 40

\* -1, 0 or 1 by the first position where the ranks differ, a prefix first
CompareRanks(ra, rb) ==
  LET diff == {i \in 1..Len(ra) : i > Len(rb) \/ ra[i] # rb[i]}
      i0 == SetMin(diff)
  IN  IF diff = {} THEN (IF Len(ra) = Len(rb) THEN 0 ELSE -1)
      ELSE IF i0 > Len(rb) THEN 1
      ELSE IF ra[i0] < rb[i0] THEN -1 ELSE 1

\* c1 || c2 on comparison results
OrElse(c1, c2) == IF c1 # 0 THEN c1 ELSE c2

CaseRanks(a) == [i \in 1..Len(a) |-> IF a[i] = LowerChar(a[i]) THEN 0 ELSE 1]
localeCompare(a, b) ==
  OrElse(CompareRanks([i \in 1..Len(a) |-> PrimaryRank(a[i])],
                      [i \in 1..Len(b) |-> PrimaryRank(b[i])]),
         CompareRanks(CaseRanks(a), CaseRanks(b)))

\* 'yyyy-MM-dd' texts compare as their <<y, m, d>>
compareDates(a, b) == CompareRanks(a, b)

\* (a, b) => a.date.localeCompare(b.date) || a.name.localeCompare(b.name)
byDateThenName(a, b) == OrElse(compareDates(a.date, b.date), localeCompare(a.name, b.name))

\* x placed after the longest prefix of the sorted q whose elements do not follow it
insertAt(q, x, n) == SubSeq(q, 1, n) \o <<x>> \o SubSeq(q, n + 1, Len(q))
insertSorted(q, x) ==
  insertAt(q, x, Cardinality({i \in 1..Len(q) : \A j \in 1..i : byDateThenName(q[j], x) <= 0}))

\* Array.prototype.sort with byDateThenName (stable)
RECURSIVE sortByDateThenName(_)
sortByDateThenName(q) ==
  IF q = <<>> THEN <<>>
  ELSE insertSorted(sortByDateThenName(SubSeq(q, 1, Len(q) - 1)), q[Len(q)])

\* ------------------------------------------------------------------- row pass
\* a raw row: the texts under the mapped columns (a missing column is empty)
nameValOf(record) == collapseSpaces(trim(record.name))

HeaderLiterals ==
  {<<"n", "a", "m", "e">>,
   <<"e", "m", "p", "l", "o", "y", "e", "e", "_", "n", "a", "m", "e">>}

\* what the loop body does with one row: return early, log and return, or
\* push the row under its key
Skipped == [kind |-> "skip"]
Logged(entry) == [kind |-> "log", entry |-> entry]
Pushed(nameVal, dateObj, record) ==
  [kind |-> "push", key |-> <<toLowerCase(nameVal), formatYMD(dateObj)>>,
   displayName |-> nameVal, parsedDate |-> dateObj, record |-> record]

\* src/types.ts:565-582, a row with a name and a date text
datedRow(record, nameVal, dateVal, dateObj) ==
  IF IsNull(dateObj)
  THEN Logged([type |-> "TIME_INTERPOLATION", name |-> nameVal, date |-> dateVal])
  ELSE Pushed(nameVal, Val(dateObj), record)

\* src/types.ts:559-563
namedRow(record, nameVal, dateVal) ==
  IF nameVal = <<>> \/ toLowerCase(nameVal) \in HeaderLiterals THEN Skipped
  ELSE IF dateVal = <<>> THEN Skipped
  ELSE datedRow(record, nameVal, dateVal, robustParseDate(dateVal))

\* src/types.ts:558-583, the body of rawRecords.forEach
rowOf(record, index) == namedRow(record, nameValOf(record), trim(record.date))

\* rows after this many are dropped without a log entry
LOG_ROW_LIMIT == 20

\* src/services/payrollProcessor.ts:78-90, a row with a name
datedRow_services(record, index, nameVal, dateVal, dateObj) ==
  IF ~IsNull(dateObj) THEN Pushed(nameVal, Val(dateObj), record)
  ELSE IF index < LOG_ROW_LIMIT
  THEN Logged([type |-> "HEADER_FIX", row |-> index + 1, date |-> dateVal])
  ELSE Skipped

\* src/services/payrollProcessor.ts:75-77
namedRow_services(record, index, nameVal, dateVal) ==
  IF nameVal = <<>> \/ toLowerCase(nameVal) = <<"n", "a", "m", "e">> THEN Skipped
  ELSE datedRow_services(record, index, nameVal, dateVal, robustParseDate_services(dateVal))

\* src/services/payrollProcessor.ts:74-91, the body of rawRecords.forEach
rowOf_services(record, index) ==
  namedRow_services(record, index, nameValOf(record), trim(record.date))

\* the rows of a kind, in row order
OfKind(rows, kind) == SelectSeq(rows, LAMBDA r : r.kind = kind)

\* cleansingLogs after the loop: the entries pushed, in row order
cleansingLogsOf(rows) == [i \in 1..Len(OfKind(rows, "log")) |-> OfKind(rows, "log")[i].entry]

\* grouped[key] after the loop: created, with displayName and parsedDate, by the
\* first row of the key, and holding the records pushed under the key in row order
recordsOf(pushed, key) ==
  [i \in 1..Len(SelectSeq(pushed, LAMBDA r : r.key = key)) |->
     SelectSeq(pushed, LAMBDA r : r.key = key)[i].record]
groupOf(first, pushed) ==
  [key |-> first.key, displayName |-> first.displayName, parsedDate |-> first.parsedDate,
   records |-> recordsOf(pushed, first.key)]
\* Object.entries(grouped): the keys in the order of their creation
firstsOf(pushed) ==
  SelectSeq([i \in 1..Len(pushed) |->
               IF \E j \in 1..(i - 1) : pushed[j].key = pushed[i].key THEN Skipped ELSE pushed[i]],
            LAMBDA r : r.kind = "push")
groupsOf(firsts, pushed) == [g \in 1..Len(firsts) |-> groupOf(firsts[g], pushed)]
groupedOf(pushed) == groupsOf(firstsOf(pushed), pushed)

passOf(rows) == [grouped |-> groupedOf(OfKind(rows, "push")), cleansingLogs |-> cleansingLogsOf(rows)]

\* src/types.ts:558-583
rowPass(rawRecords) == passOf([i \in 1..Len(rawRecords) |-> rowOf(rawRecords[i], i - 1)])

\* src/services/payrollProcessor.ts:74-91
rowPass_services(rawRecords) ==
  passOf([i \in 1..Len(rawRecords) |-> rowOf_services(rawRecords[i], i - 1)])

\* ------------------------------------------------------------ processPayroll
\* Math.random().toString(36).substr(2, 9): the k-th id drawn in a run whose
\* random stream is `seed`
randomId(seed, k) == seed + k

\* src/types.ts:584-651
dayShiftsOf(grouped, seed) ==
  [g \in 1..Len(grouped) |->
     dayShiftOf(randomId(seed, g), grouped[g].displayName, grouped[g].parsedDate,
                grouped[g].records)]

\* if (checkInTimes.length === 0) return
hasCheckIn(grp) == Len(parsedTimes(grp.records, "checkIn")) # 0

\* src/services/payrollProcessor.ts:93-170
dayShiftsOf_services(grouped, seed) ==
  [g \in 1..Len(grouped) |->
     dayShiftOf_services(randomId(seed, g), grouped[g].displayName, grouped[g].parsedDate,
                         grouped[g].records)]

\* ---------------------------------------------------------------- aggregation
\* a canonical array index: an object lists such property names first, ascending
\* (an index is below 2^32 - 1; names of ten digits or more are taken as plain names)
IsArrayIndex(t) ==
  /\ Len(t) \in 1..9
  /\ AllDigits(t)
  /\ t[1] # "0" \/ Len(t) = 1

\* the property names of a map in the order of their creation
createdKeys(keys) ==
  SelectSeq([i \in 1..Len(keys) |->
               IF \E j \in 1..(i - 1) : keys[j] = keys[i] THEN <<>> ELSE keys[i]],
            LAMBDA k : k # <<>>)

RECURSIVE ascendingKeys(_)
ascendingKeys(S) ==
  IF S = {} THEN <<>>
  ELSE <<CHOOSE k \in S : \A o \in S : DigitsValue(k) <= DigitsValue(o)>>
         \o ascendingKeys(S \ {CHOOSE k \in S : \A o \in S : DigitsValue(k) <= DigitsValue(o)})

\* Object.values(map): array indices ascending, then the other names as created
ownKeys(created) ==
  ascendingKeys({created[i] : i \in {j \in 1..Len(created) : IsArrayIndex(created[j])}})
    \o SelectSeq(created, LAMBDA k : ~IsArrayIndex(k))

\* reduce((a, b) => a + b[field], 0)
Total(shifts, field) == SumSeq([i \in 1..Len(shifts) |-> shifts[i][field]])

\* shift.netPay > 0 || shift.workHours > 0
counted(shift) == shift.netPay > 0 \/ shift.workHours > 0

shiftCountOf(shifts, type) ==
  Len(SelectSeq(shifts, LAMBDA s : s.shiftType = type /\ s.workHours > 0))

\* src/types.ts:665-686, the summary of the shifts of one name
empOf(name, shifts) ==
  [name |-> name, rank |-> 0,
   workDays |-> Len(SelectSeq(shifts, counted)),
   totalStandardPay |-> Total(shifts, "standardPay"),
   totalOTPay |-> Total(shifts, "otPay"),
   totalAttendancePenalties |-> Total(shifts, "attendancePenalty"),
   totalManualPenalties |-> Total(shifts, "manualPenalty"),
   totalManualAdjustments |-> 0, totalPenaltyWaivers |-> 0,
   netSalary |-> Total(shifts, "netPay"),
   amountPaid |-> Total(shifts, "amountPaid"),
   netRemaining |-> Total(shifts, "balanceRemaining"),
   shiftCounts |-> [A |-> shiftCountOf(shifts, "A"), B |-> shiftCountOf(shifts, "B"),
                    C |-> shiftCountOf(shifts, "C")],
   penaltyFreeDays |-> Len(SelectSeq(shifts, LAMBDA s : s.attendancePenalty = 0 /\ counted(s)))]

namesOf(dayShifts) == [i \in 1..Len(dayShifts) |-> dayShifts[i].name]
empMapOf(dayShifts, names) ==
  [e \in 1..Len(names) |->
     empOf(names[e], SelectSeq(dayShifts, LAMBDA s : s.name = names[e]))]

\* sort((a, b) => b.netSalary - a.netSalary), stable
insertBySalary(q, x) ==
  insertAt(q, x, Cardinality({i \in 1..Len(q) : \A j \in 1..i : q[j].netSalary >= x.netSalary}))
RECURSIVE sortBySalary(_)
sortBySalary(q) ==
  IF q = <<>> THEN <<>>
  ELSE insertBySalary(sortBySalary(SubSeq(q, 1, Len(q) - 1)), q[Len(q)])

\* map((s, i) => ({ ...s, rank: i + 1 }))
ranked(q) == [i \in 1..Len(q) |-> [q[i] EXCEPT !.rank = i]]

\* src/types.ts:660-704
summariesOf(dayShifts) ==
  ranked(sortBySalary(empMapOf(dayShifts, ownKeys(createdKeys(namesOf(dayShifts))))))

MonthNames ==
  <<<<"J", "a", "n", "u", "a", "r", "y">>,
    <<"F", "e", "b", "r", "u", "a", "r", "y">>,
    <<"M", "a", "r", "c", "h">>,
    <<"A", "p", "r", "i", "l">>,
    <<"M", "a", "y">>,
    <<"J", "u", "n", "e">>,
    <<"J", "u", "l", "y">>,
    <<"A", "u", "g", "u", "s", "t">>,
    <<"S", "e", "p", "t", "e", "m", "b", "e", "r">>,
    <<"O", "c", "t", "o", "b", "e", "r">>,
    <<"N", "o", "v", "e", "m", "b", "e", "r">>,
    <<"D", "e", "c", "e", "m", "b", "e", "r">>>>
\* new Date(shift.date): the midnight of a 'yyyy-MM-dd' text
shiftDateOf(shift) == NewDate(shift.date[1], shift.date[2] - 1, shift.date[3])
\* format(shiftDate, 'yyyy-MM')
monthKeyOf(shift) == <<shift.date[1], shift.date[2]>>
YearText(y) == [i \in 1..4 |-> DigitChars[((y \div Pow10(4 - i)) % 10) + 1]]
\* format(shiftDate, 'MMMM yyyy')
monthLabel(key) == MonthNames[key[2]] \o <<" ">> \o YearText(key[1])

\* src/types.ts:689-701, the statistics of the shifts of one month
statOf(key, shifts) ==
  [month |-> monthLabel(key),
   daysWorked |-> Len(SelectSeq(shifts, counted)),
   standardPay |-> Total(shifts, "standardPay"),
   otPay |-> Total(shifts, "otPay"),
   penalties |-> Total(shifts, "attendancePenalty") + Total(shifts, "manualPenalty"),
   netPay |-> Total(shifts, "netPay"),
   totalPaid |-> Total(shifts, "amountPaid")]
monthMapOf(dayShifts, keys) ==
  [m \in 1..Len(keys) |->
     statOf(keys[m], SelectSeq(dayShifts, LAMBDA s : monthKeyOf(s) = keys[m]))]


\* sort((a, b) => a.month.localeCompare(b.month)), stable
insertByMonth(q, x) ==
  insertAt(q, x, Cardinality({i \in 1..Len(q) :
                                \A j \in 1..i : localeCompare(q[j].month, x.month) <= 0}))
RECURSIVE sortByMonth(_)
sortByMonth(q) ==
  IF q = <<>> THEN <<>>
  ELSE insertByMonth(sortByMonth(SubSeq(q, 1, Len(q) - 1)), q[Len(q)])

\* src/types.ts:689-701 and 724; a 'yyyy-MM' key is never an array index
monthlyStatsOf(dayShifts) ==
  sortByMonth(monthMapOf(dayShifts,
                         createdKeys([i \in 1..Len(dayShifts) |-> monthKeyOf(dayShifts[i])])))

\* a base without the floor of 1
efficiencyOf_unfloored(totalPenalties, daysWorked) ==
  [penalties |-> totalPenalties, base |-> daysWorked * 10 * JD]
\* 1 - penalties / base, kept as the two amounts
\* src/types.ts:723: the base is ten dinars a worked day, or 1
efficiencyOf(totalPenalties, daysWorked) ==
  [penalties |-> totalPenalties, base |-> IF daysWorked * 10 = 0 THEN JD ELSE daysWorked * 10 * JD]

\* src/types.ts:687: the net pay of the shifts after today
futureLiabilityOf(dayShifts, today) ==
  Total(SelectSeq(dayShifts, LAMBDA s : shiftDateOf(s) > today), "netPay")

\* src/types.ts:725-735 (the ratios and the two named employees are left out)
insightsOf(dayShifts, summaries, today) ==
  [totalOTHours |-> Total(dayShifts, "otHours"),
   perfectAttendanceStaff |->
     namesOf(SelectSeq(summaries, LAMBDA e : e.totalAttendancePenalties = 0 /\ e.workDays > 0)),
   totalFutureLiability |-> futureLiabilityOf(dayShifts, today)]

\* src/types.ts:704-742
resultFrom(dayShifts, cleansingLogs, summaries, totalPenalties, daysWorked, today) ==
  [summaries |-> summaries,
   totalStandardOwed |-> Total(summaries, "totalStandardPay"),
   totalOTPayout |-> Total(summaries, "totalOTPay"),
   totalPenalties |-> totalPenalties,
   totalManualAdjustments |-> 0,
   totalPenaltyWaivers |-> 0,
   totalNetOwed |-> Total(summaries, "netSalary"),
   totalPaidDisbursed |-> Total(summaries, "amountPaid"),
   totalRemainingBalance |-> Total(summaries, "netSalary") - Total(summaries, "amountPaid"),
   totalDaysWorked |-> daysWorked,
   totalLatenessMins |-> Total(dayShifts, "latenessMinutes"),
   efficiencyScore |-> efficiencyOf(totalPenalties, daysWorked),
   monthlyStats |-> monthlyStatsOf(dayShifts),
   insights |-> insightsOf(dayShifts, summaries, today),
   detailedLogs |-> dayShifts,
   cleansingLogs |-> cleansingLogs]
resultOf(dayShifts, cleansingLogs, today) ==
  resultFrom(dayShifts, cleansingLogs, summariesOf(dayShifts),
             Total(dayShifts, "attendancePenalty") + Total(dayShifts, "manualPenalty"),
             Len(SelectSeq(dayShifts, counted)), today)

\* src/services/payrollProcessor.ts:178-194, the summary of the shifts of one name
empOf_services(name, shifts) ==
  [name |-> name, rank |-> 0,
   workDays |-> Len(shifts),
   totalStandardPay |-> Total(shifts, "standardPay"),
   totalOTPay |-> Total(shifts, "otPay"),
   totalAttendancePenalties |-> Total(shifts, "attendancePenalty"),
   totalManualAdjustments |-> Total(shifts, "manualAdjustment"),
   totalPenaltyWaivers |-> Total(shifts, "penaltyWaiver"),
   netSalary |-> Total(shifts, "netPay"),
   amountPaid |-> Total(shifts, "amountPaid"),
   netRemaining |-> Total(shifts, "balanceRemaining"),
   shiftCounts |-> [A |-> Len(SelectSeq(shifts, LAMBDA s : s.shiftType = "A")),
                    B |-> Len(SelectSeq(shifts, LAMBDA s : s.shiftType = "B")),
                    C |-> Len(SelectSeq(shifts, LAMBDA s : s.shiftType = "C"))]]
empMapOf_services(dayShifts, names) ==
  [e \in 1..Len(names) |->
     empOf_services(names[e], SelectSeq(dayShifts, LAMBDA s : s.name = names[e]))]

\* src/services/payrollProcessor.ts:177-205
summariesOf_services(dayShifts) ==
  ranked(sortBySalary(empMapOf_services(dayShifts, ownKeys(createdKeys(namesOf(dayShifts))))))

\* src/services/payrollProcessor.ts:196-202, the statistics of the shifts of one month name
statOf_services(month, shifts) ==
  [month |-> month,
   daysWorked |-> Len(shifts),
   standardPay |-> Total(shifts, "standardPay"),
   otPay |-> Total(shifts, "otPay"),
   penalties |-> Total(shifts, "attendancePenalty") - Total(shifts, "penaltyWaiver"),
   netPay |-> Total(shifts, "netPay")]
monthMapOf_services(dayShifts, months) ==
  [m \in 1..Len(months) |->
     statOf_services(months[m],
                     SelectSeq(dayShifts, LAMBDA s : MonthNames[s.date[2]] = months[m]))]
\* Object.values(monthMap), keyed by format(dateForMonth, 'MMMM')
monthlyStatsOf_services(dayShifts) ==
  monthMapOf_services(dayShifts,
                      createdKeys([i \in 1..Len(dayShifts) |-> MonthNames[dayShifts[i].date[2]]]))

\* src/services/payrollProcessor.ts:219: the base is the standard pay owed, or 1
efficiencyOf_services(summaries) ==
  [penalties |-> Total(summaries, "totalAttendancePenalties")
                   - Total(summaries, "totalPenaltyWaivers"),
   base |-> IF Total(summaries, "totalStandardPay") = 0 THEN JD
            ELSE Total(summaries, "totalStandardPay")]

\* src/services/payrollProcessor.ts:221-228 (the two named employees are left out)
insightsOf_services(dayShifts) ==
  [penaltyRate |-> 0,
   totalOTHours |-> Total(dayShifts, "otHours"),
   totalEarlyEvents |-> Len(SelectSeq(dayShifts, LAMBDA d : d.earlyMinutes > 15 * SecondsPerMinute)),
   totalLateEvents |-> Len(SelectSeq(dayShifts, LAMBDA d : d.latenessMinutes >= 10))]

\* src/services/payrollProcessor.ts:205-231
resultFrom_services(dayShifts, cleansingLogs, summaries) ==
  [summaries |-> summaries,
   totalStandardOwed |-> Total(summaries, "totalStandardPay"),
   totalOTPayout |-> Total(summaries, "totalOTPay"),
   totalPenalties |-> Total(summaries, "totalAttendancePenalties"),
   totalManualAdjustments |-> Total(summaries, "totalManualAdjustments"),
   totalPenaltyWaivers |-> Total(summaries, "totalPenaltyWaivers"),
   totalNetOwed |-> Total(summaries, "netSalary"),
   totalPaidDisbursed |-> Total(summaries, "amountPaid"),
   totalRemainingBalance |-> Total(summaries, "netRemaining"),
   totalDaysWorked |-> Len(dayShifts),
   totalLatenessMins |-> Total(dayShifts, "latenessMinutes"),
   efficiencyScore |-> efficiencyOf_services(summaries),
   monthlyStats |-> monthlyStatsOf_services(dayShifts),
   insights |-> insightsOf_services(dayShifts),
   detailedLogs |-> dayShifts,
   cleansingLogs |-> cleansingLogs]
resultOf_services(dayShifts, cleansingLogs) ==
  resultFrom_services(dayShifts, cleansingLogs, summariesOf_services(dayShifts))

\* src/types.ts:552-743; seed stands for Math.random, today for startOfToday()
payrollOf(pass, seed, today) ==
  resultOf(dayShiftsOf(pass.grouped, seed), pass.cleansingLogs, today)
processPayroll(rawRecords, seed, today) == payrollOf(rowPass(rawRecords), seed, today)

\* src/services/payrollProcessor.ts:69-232
payrollOf_services(pass, seed) ==
  resultOf_services(
    sortByDateThenName(dayShiftsOf_services(SelectSeq(pass.grouped, hasCheckIn), seed)),
    pass.cleansingLogs)
processPayroll_services(rawRecords, seed) ==
  payrollOf_services(rowPass_services(rawRecords), seed)

\* ------------------------------------------------------------ manager actions
\* a faulty variant of withWaiver: the balance is left as it was
withWaiver_staleBalance(l, newWaiverAmount, newNet) ==
  [l EXCEPT !.penaltyWaiver = newWaiverAmount, !.netPay = newNet]

\* the record a shift becomes; src/unnamed/part_001:84-89
withWaiver(l, newWaiverAmount, newNet) ==
  [l EXCEPT !.penaltyWaiver = newWaiverAmount, !.netPay = newNet,
            !.balanceRemaining = newNet - l.amountPaid]
waiverNet(l, newWaiverAmount) ==
  (l.standardPay + l.otPay - (l.attendancePenalty - newWaiverAmount)) - l.manualAdjustment
toggledTo(l, newWaiverAmount) == withWaiver(l, newWaiverAmount, waiverNet(l, newWaiverAmount))
\* a faulty variant of toggleWaiverOn: the day's standard pay is waived
toggleWaiverOn_standardPay(l) == toggledTo(l, IF l.penaltyWaiver > 0 THEN 0 ELSE l.standardPay)
\* src/unnamed/part_001:85-86
toggleWaiverOn(l) == toggledTo(l, IF l.penaltyWaiver > 0 THEN 0 ELSE l.attendancePenalty)

NoteSep == <<" ", "|", " ">>
WaivedPrefix == <<"W", "a", "i", "v", "e", "d", ":", " ">>
\* log.adjustmentNote ? `${log.adjustmentNote} | ${text}` : text
appendNote(note, text) ==
  IF IsNull(note) \/ Val(note) = <<>> THEN Some(text) ELSE Some(Val(note) \o NoteSep \o text)

\* src/components/PayrollResults.tsx:222-226
withAdjustment(log, newManual, newNet, reason) ==
  [log EXCEPT !.manualAdjustment = newManual,
              !.adjustmentNote = appendNote(log.adjustmentNote, reason),
              !.netPay = newNet, !.balanceRemaining = newNet - log.amountPaid]
adjustedTo(log, newManual, reason) ==
  withAdjustment(log, newManual,
                 (log.standardPay + log.otPay - log.attendancePenalty + log.penaltyWaiver)
                   - newManual,
                 reason)
\* a faulty variant of applyOtherPenaltyOn: the amount replaces the running one
applyOtherPenaltyOn_replacing(log, parsed, reason) == adjustedTo(log, parsed, reason)
\* src/components/PayrollResults.tsx:223
applyOtherPenaltyOn(log, parsed, reason) == adjustedTo(log, log.manualAdjustment + parsed, reason)

\* a faulty variant of waivedFor: the waived penalty is cleared as well
waivedFor_clearingPenalty(l, newNet, reason) ==
  [l EXCEPT !.penaltyWaiver = l.attendancePenalty, !.attendancePenalty = 0,
            !.adjustmentNote = appendNote(l.adjustmentNote, WaivedPrefix \o reason),
            !.netPay = newNet, !.balanceRemaining = newNet - l.amountPaid]
\* src/components/PayrollResults.tsx:233-242; reason is the prompt's answer
waivedFor(l, newNet, reason) ==
  [l EXCEPT !.penaltyWaiver = l.attendancePenalty,
            !.adjustmentNote = appendNote(l.adjustmentNote, WaivedPrefix \o reason),
            !.netPay = newNet, !.balanceRemaining = newNet - l.amountPaid]
removePenaltyOn(l, reason) ==
  IF l.penaltyWaiver > 0
  THEN withWaiver(l, 0, (l.standardPay + l.otPay - l.attendancePenalty) - l.manualAdjustment)
  ELSE IF IsNull(reason) THEN l
  ELSE waivedFor(l, (l.standardPay + l.otPay) - l.manualAdjustment, Val(reason))

\* prev.map(l => l.id === id ? f(l) : l)
mapById(logs, id, f(_)) == [i \in 1..Len(logs) |-> IF logs[i].id = id THEN f(logs[i]) ELSE logs[i]]

\* Number(text) on the digit texts of date and time inputs
Num(t) == DigitsValue(t)

\* src/components/PayrollResults.tsx:36-85, from the day and the entered clock times
previewAt(newEntry, day, inH, inM, outH, outM) ==
  LET actualIn == setTimeOnDate(day, inH, inM, 0)
      actualOut == rollOver(actualIn, setTimeOnDate(day, outH, outM, 0))
      auto == newEntry.shiftOverride = "AUTO"
      shiftType == IF ~auto THEN newEntry.shiftOverride ELSE shiftTypeOf(actualIn)
      startHour == IF shiftType = "A" THEN 10
                   ELSE IF shiftType = "C" THEN 11
                   ELSE IF auto /\ getDay(day) \in {4, 5} THEN 15 ELSE 14
      latenessMinutes == latenessOf(actualIn, setTimeOnDate(day, startHour, 0, 0))
      penalty == attendancePenaltyOf(latenessMinutes)
      workHours == actualOut - actualIn
      otPay == Max2(0, workHours - NINE_HOURS) * OT_RATE
      netPay == STANDARD_PAY + otPay - penalty
  IN  [shiftType |-> shiftType, latenessMinutes |-> latenessMinutes, penalty |-> penalty,
       otPay |-> otPay, netPay |-> netPay,
       balance |-> netPay - OrZero(parseFloat(newEntry.paid)),
       workHours |-> workHours, actualIn |-> actualIn, actualOut |-> actualOut]
previewOf(newEntry, ymd, inHM, outHM) ==
  previewAt(newEntry, NewDate(Num(ymd[1]), Num(ymd[2]) - 1, Num(ymd[3])),
            Num(inHM[1]), Num(inHM[2]), Num(outHM[1]), Num(outHM[2]))

\* src/components/PayrollResults.tsx:29-86; the form holds a date input's
\* yyyy-MM-dd, time inputs' HH:mm and a number input's text
entryPreview(newEntry) ==
  IF newEntry.date = <<>> \/ newEntry.checkIn = <<>> \/ newEntry.checkOut = <<>> THEN Null
  ELSE Some(previewOf(newEntry, SplitOn(newEntry.date, {"-"}), SplitOn(newEntry.checkIn, {":"}),
                      SplitOn(newEntry.checkOut, {":"})))

ManualEntryNote == <<"M", "a", "n", "u", "a", "l", " ", "E", "n", "t", "r", "y">>

\* the DayShift of src/components/PayrollResults.tsx:196-209
logOfPreview(id, newEntry, preview, ymd) ==
  [id |-> id, name |-> newEntry.name,
   date |-> <<Num(ymd[1]), Num(ymd[2]), Num(ymd[3])>>,
   actualIn |-> preview.actualIn, actualOut |-> preview.actualOut,
   shiftType |-> preview.shiftType, shiftStart |-> preview.actualIn,
   latenessMinutes |-> preview.latenessMinutes,
   earlyMinutes |-> Max2(0, NINE_HOURS - preview.workHours),
   workHours |-> preview.workHours, otHours |-> Max2(0, preview.workHours - NINE_HOURS),
   otPay |-> preview.otPay, standardPay |-> STANDARD_PAY,
   attendancePenalty |-> preview.penalty, manualAdjustment |-> 0, penaltyWaiver |-> 0,
   adjustmentNote |-> Some(ManualEntryNote), netPay |-> preview.netPay,
   amountPaid |-> OrZero(parseFloat(newEntry.paid)),
   balanceRemaining |-> preview.balance]
newLogOf(id, newEntry) ==
  logOfPreview(id, newEntry, Val(entryPreview(newEntry)), SplitOn(newEntry.date, {"-"}))


\* --------------------------------------------------------------------- inputs
Row(name, date, checkIn, checkOut, paid, penalty) ==
  [name |-> name, date |-> date, checkIn |-> checkIn, checkOut |-> checkOut,
   paid |-> paid, penalty |-> penalty]

Ali == <<"A", "l", "i">>
AliPadded == <<" ", "a", "l", "i", " ">>
Sara == <<"S", "a", "r", "a">>
SaraLee == <<"S", "a", "r", "a", " ", " ", "L", "e", "e">>
Thu18 == <<"2", "0", "2", "4", "-", "0", "1", "-", "1", "8">>
Thu18Slash == <<"1", "8", "/", "0", "1", "/", "2", "0", "2", "4">>
Fri19 == <<"2", "0", "2", "4", "-", "0", "1", "-", "1", "9">>
Fri19Quoted == <<"\"", "2", "0", "2", "4", "-", "0", "1", "-", "1", "9", "\"">>
NotADate == <<"N", "/", "A">>

\* the sheet of the ledger runs: a late arrival with overtime, a second punch
\* of the same day under another spelling with a manual penalty, a day without
\* punches, an arrival without departure, an unparseable date
LedgerSheet ==
  <<Row(Ali, Thu18, <<"1", "0", ":", "2", "5">>, <<"2", "0", ":", "0", "0">>, <<"5">>, <<>>),
    Row(AliPadded, Thu18Slash, <<"3", ":", "1", "0", " ", "P", "M">>,
        <<"1", "1", ":", "3", "0", " ", "P", "M">>, <<>>, <<"2">>),
    Row(Sara, Fri19, <<>>, <<>>, <<"3">>, <<"1">>),
    Row(Sara, Fri19, <<"1", "5", ":", "1", "0">>, <<>>, <<>>, <<>>),
    Row(Sara, NotADate, <<"0", "9", ":", "0", "0">>, <<"1", "8", ":", "0", "0">>, <<>>, <<>>)>>

\* the longest data set of a ledger run
MaxRows == 2

SeqsUpTo(S, n) == UNION {[1..k -> S] : k \in 1..n}
Reversed(q) == [i \in 1..Len(q) |-> q[Len(q) + 1 - i]]
\* the runs of up to n consecutive rows of a sheet
Slices(sheet, n) ==
  {SubSeq(sheet, i, j) : i \in 1..Len(sheet), j \in 1..Len(sheet)} \ {<<>>}
SlicesUpTo(sheet, n) == {q \in Slices(sheet, n) : Len(q) <= n}

\* a data set is some consecutive rows of the sheet, top down or bottom up
LedgerInputs == SlicesUpTo(LedgerSheet, MaxRows) \cup SlicesUpTo(Reversed(LedgerSheet), MaxRows)

\* answers to prompt(): null is Cancel
AmountAnswers == {Null, Some(<<"x">>), Some(<<"2">>), Some(<<"-", "1">>)}
ReasonAnswers == {Null, Some(<<>>), Some(<<"r">>)}
NoteAnswers == {Null, Some(<<>>), Some(<<"n">>)}

\* contents of the manual-entry form when Confirm Entry is clicked
Entry(name, date, checkIn, checkOut, paid, shiftOverride) ==
  [name |-> name, date |-> date, checkIn |-> checkIn, checkOut |-> checkOut,
   paid |-> paid, shiftOverride |-> shiftOverride]

EntryForms ==
  {Entry(Ali, Fri19, <<"2", "2", ":", "0", "0">>, <<"0", "8", ":", "3", "0">>, <<"4">>, "AUTO"),
   Entry(Sara, Thu18, <<"1", "2", ":", "3", "0">>, <<"1", "2", ":", "3", "0">>, <<>>, "A"),
   Entry(<<>>, Thu18, <<"1", "0", ":", "0", "0">>, <<"1", "9", ":", "0", "0">>, <<"0">>, "AUTO"),
   Entry(Ali, Thu18, <<>>, <<"1", "9", ":", "0", "0">>, <<"0">>, "AUTO")}

\* applied manual adjustments, waivers with a reason and manual entries per run
MaxEdits == 2

\* ---------------------------------------------------------------------- state
VARIABLES
  build,        \* which build of the application runs
  isLoading, result, auditReport, error,   \* App state
  pc,           \* position of handleDataReady: "idle", or "audit" at its await
  masterRawData,\* App state of the cloud build
  localLogs,    \* PayrollResults state
  queue,        \* PayrollResults: the updaters given to setLocalLogs, not yet rendered
  filters,      \* PayrollResults: selectedMonth, selectedEmployee, searchTerm, customRange
  drawn,        \* ids drawn from Math.random so far
  runs,         \* observer: calls of handleDataReady so far
  lastRun,      \* observer: the last call of processPayroll, data and value
  edits,        \* observer: applied edits that grow a record or the list
  hist          \* observer: the run of consecutive waiver toggles on one shift

vars == <<build, isLoading, result, auditReport, error, pc, masterRawData, localLogs,
          queue, filters, drawn, runs, lastRun, edits, hist>>

NoHist == [n |-> 0]

AllMonths == <<"A", "l", "l", " ", "M", "o", "n", "t", "h", "s">>
AllEmployees == <<"A", "l", "l", " ", "E", "m", "p", "l", "o", "y", "e", "e", "s">>
\* src/unnamed/part_001:16-19, the filters of a view that mounts; the view of
\* src/components/PayrollResults.tsx has no customRange and never sets one
InitialFilters ==
  [selectedMonth |-> AllMonths, selectedEmployee |-> AllEmployees, searchTerm |-> <<>>,
   customRange |-> [start |-> <<>>, end |-> <<>>]]

InitApp ==
  /\ build \in {"cloud", "upload"}
  /\ isLoading = FALSE
  /\ result = Null
  /\ auditReport = Null
  /\ error = Null
  /\ pc = "idle"
  /\ masterRawData = <<>>
  /\ localLogs = <<>>
  /\ queue = <<>>
  /\ filters = InitialFilters
  /\ drawn = 0
  /\ runs = 0
  /\ lastRun = Null
  /\ edits = 0
  /\ hist = NoHist

ZeroRecordsMessage == "Zero valid attendance records found."
ForensicZeroMessage == "FORENSIC ZERO: No valid attendance logs found."

Mounted == ~IsNull(result)

\* App.handleDataReady from the value of processPayroll up to its await;
\* src/types.ts:121-133 and 360-384.  When a result follows a result, a React
\* release that renders the state updates of one tick together keeps
\* PayrollResults mounted with the list it holds, and a release that renders
\* setResult(null) at once mounts it anew on the new list; a failed run
\* unmounts it.  The cloud build never sets the result to null: PayrollResults
\* stays mounted on the list it holds (useState takes initialResult.detailedLogs
\* at the mount only), through a failed run as well.
dataProcessed(data, today, payrollResult) ==
  /\ lastRun' = Some([data |-> data, today |-> today, value |-> payrollResult])
  /\ drawn' = drawn + Len(payrollResult.detailedLogs)
  /\ runs' = runs + 1
  /\ IF Len(payrollResult.detailedLogs) = 0
     THEN /\ error' = Some([message |-> IF build = "cloud" THEN ForensicZeroMessage
                                        ELSE ZeroRecordsMessage,
                            logs |-> IF build = "cloud" THEN Null
                                     ELSE Some(payrollResult.cleansingLogs)])
          /\ isLoading' = FALSE
          /\ result' = IF build = "cloud" THEN result ELSE Null
          /\ localLogs' = IF build = "cloud" THEN localLogs ELSE <<>>
          /\ hist' = IF build = "cloud" THEN hist ELSE NoHist
          /\ queue' = IF build = "cloud" THEN queue ELSE <<>>
          /\ filters' = IF build = "cloud" THEN filters ELSE InitialFilters
          /\ UNCHANGED <<pc, masterRawData>>
     ELSE /\ error' = Null
          /\ isLoading' = TRUE
          /\ result' = Some(payrollResult)
          /\ \E kept \in (IF ~Mounted THEN {FALSE}
                          ELSE IF build = "cloud" THEN {TRUE} ELSE BOOLEAN) :
               /\ localLogs' = IF kept THEN localLogs ELSE payrollResult.detailedLogs
               /\ hist' = IF kept THEN hist ELSE NoHist
               /\ queue' = IF kept THEN queue ELSE <<>>
               /\ filters' = IF kept THEN filters ELSE InitialFilters
          /\ masterRawData' = IF build = "cloud" THEN data ELSE masterRawData
          /\ pc' = "audit"
  /\ auditReport' = IF build = "cloud" THEN auditReport ELSE Null
  /\ UNCHANGED <<build, edits>>

\* startOfToday() when processPayroll runs: the 18th or the 19th of January 2024
Todays == {NewDate(2024, 0, 18), NewDate(2024, 0, 19)}
\* the build of src/services/payrollProcessor.ts does not read the clock
ClockReads == IF build = "cloud" THEN {Some(d) : d \in Todays} ELSE {Null}

\* src/types.ts:118-144 and 357-391, called by the uploader's button and, in
\* the cloud build, by handleCloudSync on the fetched sheet (src/types.ts:339-355,
\* its button is there with or without a result); both are disabled while loading
handleDataReady(data) ==
  /\ pc = "idle"
  /\ \E today \in ClockReads :
       dataProcessed(data, today,
                     IF build = "cloud" THEN processPayroll(data, drawn, Val(today))
                     ELSE processPayroll_services(data, drawn))

\* what awaiting getPayrollAudit yields; src/unnamed/part_003:4-48
AuditOutcomes == {"report", "failed", "offline", "throws"}
getPayrollAudit(outcome) ==
  CASE outcome = "report" -> Some("report")
    [] outcome = "failed" -> Some("Audit generation failed.")
    [] outcome = "offline" -> Some("Audit Engine Offline.")
    [] outcome = "throws" -> Null

\* handleDataReady after its await; src/types.ts:133-143 and 384-390
auditSettles(outcome) ==
  /\ pc = "audit"
  /\ pc' = "idle"
  /\ isLoading' = FALSE
  /\ IF IsNull(getPayrollAudit(outcome))
     THEN /\ error' = Some([message |-> "GoogleGenAI", logs |-> Null])
          /\ UNCHANGED auditReport
     ELSE /\ auditReport' = getPayrollAudit(outcome)
          /\ UNCHANGED error
  /\ UNCHANGED <<build, result, masterRawData, localLogs, queue, filters, drawn, runs, lastRun,
                 edits, hist>>

Ids == {localLogs[i].id : i \in 1..Len(localLogs)}
ShiftById(logs, id) == logs[CHOOSE i \in 1..Len(logs) : logs[i].id = id]

\* the run of toggles after one more toggle of shift id
toggled(id) ==
  IF hist.n = 1 /\ hist.id = id THEN [hist EXCEPT !.n = 2]
  ELSE [n |-> 1, id |-> id, before |-> ShiftById(localLogs, id)]

AppUnchanged == UNCHANGED <<build, isLoading, result, auditReport, error, pc, masterRawData,
                            queue, filters, drawn, runs, lastRun>>

\* src/unnamed/part_001:82-92
toggleWaiver(id) ==
  /\ build = "cloud" /\ Mounted
  /\ localLogs' = mapById(localLogs, id, toggleWaiverOn)
  /\ hist' = toggled(id)
  /\ UNCHANGED edits
  /\ AppUnchanged

\* src/unnamed/part_001:94-99
addManagerNote(id, note) ==
  /\ build = "cloud" /\ Mounted
  /\ IF IsNull(note)
     THEN UNCHANGED <<localLogs, hist>>
     ELSE /\ localLogs' = mapById(localLogs, id, LAMBDA l : [l EXCEPT !.adjustmentNote = note])
          /\ hist' = NoHist
  /\ UNCHANGED edits
  /\ AppUnchanged

\* src/components/PayrollResults.tsx:214-229
applyOtherPenalty(id, amount, reason) ==
  /\ build = "upload" /\ Mounted
  /\ IF IsNull(amount) \/ IsNull(parseFloat(Val(amount))) \/ IsNull(reason) \/ Val(reason) = <<>>
     THEN UNCHANGED <<localLogs, hist, edits>>
     ELSE /\ edits < MaxEdits
          /\ localLogs' = mapById(localLogs, id,
                                  LAMBDA log : applyOtherPenaltyOn(log, Val(parseFloat(Val(amount))),
                                                                   Val(reason)))
          /\ hist' = NoHist
          /\ edits' = edits + 1
  /\ AppUnchanged

\* src/components/PayrollResults.tsx:231-245
removePenalty(id, reason) ==
  /\ build = "upload" /\ Mounted
  /\ LET waived == ShiftById(localLogs, id).penaltyWaiver > 0
     IN  IF ~waived /\ IsNull(reason)
         THEN UNCHANGED <<localLogs, hist, edits>>
         ELSE /\ waived \/ edits < MaxEdits
              /\ localLogs' = mapById(localLogs, id, LAMBDA l : removePenaltyOn(l, reason))
              /\ hist' = toggled(id)
              /\ edits' = IF waived THEN edits ELSE edits + 1
  /\ AppUnchanged

\* src/components/PayrollResults.tsx:194-212
handleAddEntry(newEntry) ==
  /\ build = "upload" /\ Mounted
  /\ IF newEntry.name = <<>> \/ IsNull(entryPreview(newEntry))
     THEN UNCHANGED <<localLogs, hist, edits, drawn>>
     ELSE /\ edits < MaxEdits
          /\ localLogs' = sortByDateThenName(Append(localLogs, newLogOf(randomId(drawn, 1), newEntry)))
          /\ drawn' = drawn + 1
          /\ hist' = NoHist
          /\ edits' = edits + 1
  /\ UNCHANGED <<build, isLoading, result, auditReport, error, pc, masterRawData, queue,
                 filters, runs, lastRun>>

ManagerAction ==
  \/ \E id \in Ids : toggleWaiver(id)
  \/ \E id \in Ids, note \in NoteAnswers : addManagerNote(id, note)
  \/ \E id \in Ids, amount \in AmountAnswers, reason \in ReasonAnswers :
       applyOtherPenalty(id, amount, reason)
  \/ \E id \in Ids, reason \in ReasonAnswers : removePenalty(id, reason)
  \/ \E newEntry \in EntryForms : handleAddEntry(newEntry)

Init == InitApp

\* data sets delivered to the application in one session
MaxRuns == 2

Next ==
  \/ runs < MaxRuns /\ \E data \in LedgerInputs : handleDataReady(data)
  \/ \E outcome \in AuditOutcomes : auditSettles(outcome)
  \/ ManagerAction

Spec == Init /\ [][Next]_vars

\* ------------------------------------------------- edits before the next render
\* the updater a handler gives to setLocalLogs; seen is the list of the render
\* whose handler it is (the localLogs the handler closes over)
Updater(op, id, amount, reason) ==
  [op |-> op, id |-> id, amount |-> amount, reason |-> reason, seen |-> localLogs]

\* a faulty variant of prev: the list the handler closed over
prev_captured(state, u) == u.seen

\* setLocalLogs(prev => ...): the updater is given the latest list
prev(state, u) == state

\* the bodies of the updaters; src/unnamed/part_001:83-91 and 98,
\* src/components/PayrollResults.tsx:221-228 and 232-244
updated(u, logs) ==
  CASE u.op = "toggleWaiver" -> mapById(logs, u.id, toggleWaiverOn)
    [] u.op = "addManagerNote" ->
         mapById(logs, u.id, LAMBDA l : [l EXCEPT !.adjustmentNote = u.reason])
    [] u.op = "applyOtherPenalty" ->
         mapById(logs, u.id, LAMBDA log : applyOtherPenaltyOn(log, u.amount, Val(u.reason)))
    [] u.op = "removePenalty" -> mapById(logs, u.id, LAMBDA l : removePenaltyOn(l, u.reason))

\* React runs the queued updaters in order, each on the value of the one before
RECURSIVE rendered(_, _)
rendered(state, q) ==
  IF q = <<>> THEN state
  ELSE rendered(updated(Head(q), prev(state, Head(q))), Tail(q))

\* the most updaters waiting for one render
MaxPending == 2

\* the edits of one shift: a toggle and a note, or an adjustment of 2 and a
\* waiver with a reason
Updaters(id) ==
  IF build = "cloud"
  THEN {Updater("toggleWaiver", id, 0, Null), Updater("addManagerNote", id, 0, Some(<<"n">>))}
  ELSE {Updater("applyOtherPenalty", id, Val(parseFloat(<<"2">>)), Some(<<"r">>)),
        Updater("removePenalty", id, 0, Some(<<"r">>))}

\* a handler up to its call of setLocalLogs, before React renders
setLocalLogs(u) ==
  /\ Mounted
  /\ Len(queue) < MaxPending
  /\ build = "upload" => edits < MaxEdits
  /\ queue' = Append(queue, u)
  /\ edits' = IF build = "upload" THEN edits + 1 ELSE edits
  /\ UNCHANGED <<build, isLoading, result, auditReport, error, pc, masterRawData, localLogs,
                 filters, drawn, runs, lastRun, hist>>

\* the render that follows
render ==
  /\ queue # <<>>
  /\ localLogs' = rendered(localLogs, queue)
  /\ queue' = <<>>
  /\ hist' = NoHist
  /\ UNCHANGED <<build, isLoading, result, auditReport, error, pc, masterRawData,
                 filters, drawn, runs, lastRun, edits>>

NextRace ==
  \/ runs = 0 /\ \E data \in LedgerInputs : handleDataReady(data)
  \/ \E id \in Ids : \E u \in Updaters(id) : setLocalLogs(u)
  \/ render

SpecRace == Init /\ [][NextRace]_vars

\* ------------------------------------------------------- one arrival per run
\* the text of a clock time, HH:mm
TimeText(h, m) ==
  <<DigitChars[(h \div 10) + 1], DigitChars[(h % 10) + 1], ":",
    DigitChars[(m \div 10) + 1], DigitChars[(m % 10) + 1]>>
\* the text of a day of January 2024, yyyy-MM-dd
JanuaryText(d) ==
  <<"2", "0", "2", "4", "-", "0", "1", "-", DigitChars[(d \div 10) + 1], DigitChars[(d % 10) + 1]>>

\* Monday 15 to Sunday 21 January 2024
WeekDays == 15..21
\* a one-row sheet for every minute of every day of the week, the departure
\* missing or punched at 20:00, and then with or without a penalty of 2
Departures == {<<<<>>, <<>>>>, <<TimeText(20, 0), <<>>>>, <<TimeText(20, 0), <<"2">>>>}
ShiftInputs ==
  {<<Row(Ali, JanuaryText(d), TimeText(h, m), out[1], <<>>, out[2])>> :
     d \in WeekDays, h \in 0..23, m \in 0..59, out \in Departures}

NextShift == runs = 0 /\ \E data \in ShiftInputs : handleDataReady(data)

SpecShift == Init /\ [][NextShift]_vars

\* ------------------------------------------------------- the presented views
\* String.prototype.includes
includes(t, part) == \E i \in 0..(Len(t) - Len(part)) : SubSeq(t, i + 1, i + Len(part)) = part
TwoDigits(n) == <<DigitChars[(n \div 10) + 1], DigitChars[(n % 10) + 1]>>
\* the 'yyyy-MM-dd' text of the date of a shift
dateText(date) == YearText(date[1]) \o <<"-">> \o TwoDigits(date[2]) \o <<"-">> \o TwoDigits(date[3])
\* format(logDateObj, 'MMMM yyyy'), and format(d, 'MMMM') in the upload view
logMonthStr(log) ==
  IF build = "cloud" THEN monthLabel(monthKeyOf(log)) ELSE MonthNames[log.date[2]]
\* the filter of src/unnamed/part_001:23-40 and of
\* src/components/PayrollResults.tsx:106-114 on one shift; the ends of the
\* custom range are '' (here <<>>) or the 'yyyy-MM-dd' of a date input,
\* compared as texts, which is the order of their <<y, m, d>>
passes(log, f) ==
  /\ f.selectedMonth = AllMonths \/ logMonthStr(log) = f.selectedMonth
  /\ f.selectedEmployee = AllEmployees \/ log.name = f.selectedEmployee
  /\ \/ includes(toLowerCase(log.name), toLowerCase(f.searchTerm))
     \/ includes(dateText(log.date), f.searchTerm)
  /\ f.customRange.start = <<>> \/ compareDates(log.date, f.customRange.start) >= 0
  /\ f.customRange.end = <<>> \/ compareDates(log.date, f.customRange.end) <= 0

\* PayrollResults.filteredLogs
filteredLogs == SelectSeq(localLogs, LAMBDA log : passes(log, filters))

\* src/unnamed/part_001:54-80, the summary of the shifts of one name
summaryOf(name, logs) ==
  [name |-> name, rank |-> 0,
   workDays |-> Len(logs),
   totalStandardPay |-> Total(logs, "standardPay"),
   totalOTPay |-> Total(logs, "otPay"),
   totalAttendancePenalties |-> Total(logs, "attendancePenalty") - Total(logs, "penaltyWaiver"),
   totalManualPenalties |-> Total(logs, "manualPenalty"),
   totalManualAdjustments |-> 0,
   totalPenaltyWaivers |-> 0,
   netSalary |-> Total(logs, "netPay"),
   amountPaid |-> Total(logs, "amountPaid"),
   netRemaining |-> Total(logs, "netPay") - Total(logs, "amountPaid"),
   shiftCounts |-> [A |-> Len(SelectSeq(logs, LAMBDA s : s.shiftType = "A")),
                    B |-> Len(SelectSeq(logs, LAMBDA s : s.shiftType = "B")),
                    C |-> Len(SelectSeq(logs, LAMBDA s : s.shiftType = "C"))],
   penaltyFreeDays |-> Len(SelectSeq(logs, LAMBDA s : s.attendancePenalty = 0))]
summaryMapOf(logs, names) ==
  [e \in 1..Len(names) |-> summaryOf(names[e], SelectSeq(logs, LAMBDA s : s.name = names[e]))]
summariesFrom(logs) ==
  ranked(sortBySalary(summaryMapOf(logs, ownKeys(createdKeys(namesOf(logs))))))

\* src/components/PayrollResults.tsx:117-139, the summary of the shifts of one name
filteredSummaryOf(name, logs) ==
  [name |-> name, rank |-> 0,
   workDays |-> Len(logs),
   totalStandardPay |-> Total(logs, "standardPay"),
   totalOTPay |-> Total(logs, "otPay"),
   totalAttendancePenalties |-> Total(logs, "attendancePenalty"),
   totalManualAdjustments |-> Total(logs, "manualAdjustment"),
   totalPenaltyWaivers |-> Total(logs, "penaltyWaiver"),
   netSalary |-> Total(logs, "netPay"),
   amountPaid |-> Total(logs, "amountPaid"),
   netRemaining |-> Total(logs, "netPay") - Total(logs, "amountPaid"),
   shiftCounts |-> [A |-> Len(SelectSeq(logs, LAMBDA s : s.shiftType = "A")),
                    B |-> Len(SelectSeq(logs, LAMBDA s : s.shiftType = "B")),
                    C |-> Len(SelectSeq(logs, LAMBDA s : s.shiftType = "C"))]]
filteredSummaryMapOf(logs, names) ==
  [e \in 1..Len(names) |->
     filteredSummaryOf(names[e], SelectSeq(logs, LAMBDA s : s.name = names[e]))]
filteredSummariesFrom(logs) ==
  ranked(sortBySalary(filteredSummaryMapOf(logs, ownKeys(createdKeys(namesOf(logs))))))

\* the useMemo values of the mounted PayrollResults
summaries == summariesFrom(filteredLogs)
filteredSummaries == filteredSummariesFrom(filteredLogs)

\* src/unnamed/part_001:43-52
financialsFrom(logs) ==
  [totalNetOwed |-> Total(logs, "netPay"),
   totalPaid |-> Total(logs, "amountPaid"),
   totalOT |-> Total(logs, "otPay"),
   totalLatePenalties |-> Total(logs, "attendancePenalty") - Total(logs, "penaltyWaiver"),
   totalDays |-> Len(logs),
   remaining |-> Total(logs, "netPay") - Total(logs, "amountPaid")]
financials == financialsFrom(filteredLogs)

\* src/components/PayrollResults.tsx:154-172 (the four percentages are left out)
financialsFrom_components(logs) ==
  [totalNetOwed |-> Total(logs, "netPay"),
   totalPaid |-> Total(logs, "amountPaid"),
   totalStandard |-> Total(logs, "standardPay"),
   totalOT |-> Total(logs, "otPay"),
   totalPenalties |-> Total(logs, "attendancePenalty") - Total(logs, "penaltyWaiver")
                        + Total(logs, "manualAdjustment"),
   totalHours |-> Total(logs, "workHours"),
   totalLatenessMins |-> Total(logs, "latenessMinutes"),
   totalDays |-> Len(logs),
   remaining |-> Total(logs, "netPay") - Total(logs, "amountPaid")]
financials_components == financialsFrom_components(filteredLogs)

\* ------------------------------------------------------------ one sheet per run
\* rows of one employee-day under several spellings, of a day without
\* punches, of dates that do not parse, a header row, a shift of no length
\* that is four hours late, and two employees named by numbers
BatchRows ==
  {Row(Ali, Thu18, <<"1", "0", ":", "2", "5">>, <<"2", "0", ":", "0", "0">>, <<"5">>, <<>>),
   Row(AliPadded, Thu18Slash, <<"3", ":", "1", "0", " ", "P", "M">>,
       <<"1", "1", ":", "3", "0", " ", "P", "M">>, <<>>, <<"2">>),
   Row(Ali, Thu18, <<"0", "9", ":", "4", "0">>, <<"1", "8", ":", "0", "0">>, <<"1">>, <<"1">>),
   Row(Sara, Fri19, <<>>, <<>>, <<"3">>, <<"1">>),
   Row(Sara, Fri19Quoted, <<"1", "5", ":", "1", "0">>, <<>>, <<>>, <<>>),
   Row(Sara, NotADate, <<"0", "9", ":", "0", "0">>, <<"1", "8", ":", "0", "0">>, <<>>, <<>>),
   Row(SaraLee, <<>>, <<"0", "9", ":", "0", "0">>, <<"1", "8", ":", "0", "0">>, <<>>, <<>>),
   Row(<<"N", "a", "m", "e">>, <<"D", "a", "t", "e">>, <<"I", "n">>, <<"O", "u", "t">>,
       <<"P", "a", "i", "d">>, <<>>),
   Row(Sara, Fri19, <<"1", "9", ":", "0", "0">>, <<"1", "9", ":", "0", "0">>, <<>>, <<"1">>),
   Row(<<"2">>, Thu18, <<"1", "0", ":", "0", "0">>, <<"1", "9", ":", "0", "0">>, <<>>, <<>>),
   Row(<<"1">>, Fri19, <<"1", "0", ":", "0", "0">>, <<"1", "9", ":", "0", "0">>, <<>>, <<>>),
   Row(Ali, Fri19, <<"2", "0", ":", "0", "0">>, <<"0", "9", ":", "0", "0">>, <<>>, <<>>),
   Row(Ali, Fri19, <<"1", "0", ":", "0", "0">>, <<"3", "5", ":", "0", "0">>, <<>>, <<>>),
   Row(Sara, Thu18, <<"1", "9", ":", "0", "0">>, <<"1", "9", ":", "0", "0">>, <<>>, <<>>)}

\* the longest short sheet
MaxBatchRows == 3

\* a sheet long enough that its last row is past the logged rows
LongSheet(last) ==
  [i \in 1..(LOG_ROW_LIMIT + 1) |->
     IF i <= LOG_ROW_LIMIT
     THEN Row(Ali, Thu18, <<"1", "0", ":", "0", "0">>, <<"1", "9", ":", "0", "0">>, <<>>, <<>>)
     ELSE last]

BatchInputs == SeqsUpTo(BatchRows, MaxBatchRows) \cup {LongSheet(r) : r \in BatchRows}

NextBatch == runs = 0 /\ \E data \in BatchInputs : handleDataReady(data)

SpecBatch == Init /\ [][NextBatch]_vars

\* ------------------------------------------------- adjustments of one ledger
\* the answers to the prompt "Reason:" and to the prompt "Waiver Reason:"
TrailReasons == {Null, Some(<<"r">>), Some(<<"s">>)}

\* one run, then the edits of its shifts in the view
NextAdjust ==
  \/ runs = 0 /\ \E data \in LedgerInputs : handleDataReady(data)
  \/ \E outcome \in AuditOutcomes : auditSettles(outcome)
  \/ \E id \in Ids : toggleWaiver(id)
  \/ \E id \in Ids, note \in NoteAnswers : addManagerNote(id, note)
  \/ \E newEntry \in EntryForms : handleAddEntry(newEntry)
  \/ \E id \in Ids, amount \in AmountAnswers, reason \in TrailReasons :
       applyOtherPenalty(id, amount, reason)
  \/ \E id \in Ids, reason \in TrailReasons : removePenalty(id, reason)

SpecAdjust == Init /\ [][NextAdjust]_vars

\* ------------------------------------------------------ the filters of a view
\* src/unnamed/part_001:128-131; the upload view calls setSelectedMonth alone
\* (src/components/PayrollResults.tsx:295)
monthChanged(f, val) ==
  IF build = "cloud" /\ val # AllMonths
  THEN [f EXCEPT !.selectedMonth = val, !.customRange = [start |-> <<>>, end |-> <<>>]]
  ELSE [f EXCEPT !.selectedMonth = val]
\* a faulty variant of rangeChanged: the selected month stays
rangeChanged_keepingMonth(f, key, val) == [f EXCEPT !.customRange[key] = val]
\* src/unnamed/part_001:133-136
rangeChanged(f, key, val) ==
  [f EXCEPT !.customRange[key] = val,
            !.selectedMonth = IF val # <<>> THEN AllMonths ELSE @]

\* the options of the month select, of the employee select, the values of a
\* date input and the texts typed into the search box
availableMonths == {logMonthStr(localLogs[i]) : i \in 1..Len(localLogs)}
availableEmployees == {localLogs[i].name : i \in 1..Len(localLogs)}
RangeValues == {<<>>, <<2024, 1, 18>>, <<2024, 1, 19>>}
SearchTerms == {<<>>, <<"a", "l">>, <<"1", "9">>}

FiltersOnly == UNCHANGED <<build, isLoading, result, auditReport, error, pc, masterRawData,
                           localLogs, queue, drawn, runs, lastRun, edits, hist>>

\* src/unnamed/part_001:121-126
clearFilters ==
  /\ build = "cloud" /\ Mounted
  /\ filters' = [selectedMonth |-> AllMonths, selectedEmployee |-> AllEmployees,
                 searchTerm |-> <<>>, customRange |-> [start |-> <<>>, end |-> <<>>]]
  /\ FiltersOnly
handleMonthChange(val) ==
  /\ Mounted
  /\ filters' = monthChanged(filters, val)
  /\ FiltersOnly
handleRangeChange(key, val) ==
  /\ build = "cloud" /\ Mounted
  /\ filters' = rangeChanged(filters, key, val)
  /\ FiltersOnly
\* src/unnamed/part_001:200 and src/components/PayrollResults.tsx:288
setSelectedEmployee(val) ==
  /\ Mounted
  /\ filters' = [filters EXCEPT !.selectedEmployee = val]
  /\ FiltersOnly
\* src/components/PayrollResults.tsx:283
setSearchTerm(val) ==
  /\ build = "upload" /\ Mounted
  /\ filters' = [filters EXCEPT !.searchTerm = val]
  /\ FiltersOnly

\* one run, then the filters of its view
NextFilter ==
  \/ runs = 0 /\ \E data \in LedgerInputs : handleDataReady(data)
  \/ \E outcome \in AuditOutcomes : auditSettles(outcome)
  \/ clearFilters
  \/ \E val \in availableMonths \cup {AllMonths} : handleMonthChange(val)
  \/ \E key \in {"start", "end"}, val \in RangeValues : handleRangeChange(key, val)
  \/ \E val \in availableEmployees \cup {AllEmployees} : setSelectedEmployee(val)
  \/ \E val \in SearchTerms : setSearchTerm(val)

SpecFilter == Init /\ [][NextFilter]_vars

\* ------------------------------------------------------------------- claims
\* the shifts the manager sees
Shifts == {localLogs[i] : i \in 1..Len(localLogs)}
\* the manual penalty a shift carries; a build whose shifts have no such field
\* carries none
ManualPenaltyOf(l) == IF "manualPenalty" \in DOMAIN l THEN l.manualPenalty ELSE 0

\* C1: in every reachable state every shift has
\* netPay = standardPay + otPay - (attendancePenalty - penaltyWaiver)
\*          - manualPenalty - manualAdjustment
C1_NetPayFormula ==
  \A l \in Shifts :
    l.netPay = l.standardPay + l.otPay - (l.attendancePenalty - l.penaltyWaiver)
                 - ManualPenaltyOf(l) - l.manualAdjustment

\* a shift computed from punches whose net pay was recomputed by a waiver toggle
\* although it carries a manual penalty
C1_ToggledWithManualPenalty ==
  /\ hist.n = 1
  /\ \E l \in Shifts : l.id = hist.id /\ l.standardPay > 0 /\ ManualPenaltyOf(l) > 0

\* C2: in every reachable state every shift has balanceRemaining = netPay -
\* amountPaid, and no step changes the amountPaid of a shift that stays listed
C2_Balance == \A l \in Shifts : l.balanceRemaining = l.netPay - l.amountPaid
C2_AmountPaidKept ==
  \A i \in 1..Len(localLogs), j \in 1..Len(localLogs') :
    localLogs[i].id = localLogs'[j].id => localLogs'[j].amountPaid = localLogs[i].amountPaid
C2_BalanceAndAmountPaid == []C2_Balance /\ [][C2_AmountPaidKept]_vars

\* a shift with an amount paid and a manual adjustment, after a waiver was granted
C2_EditedPaidShift ==
  \E l \in Shifts : l.amountPaid > 0 /\ l.manualAdjustment # 0 /\ l.penaltyWaiver > 0

\* C5: two consecutive waiver toggles of one shift that was not waived, with no
\* other edit in between, leave its netPay, balanceRemaining and penaltyWaiver
\* as they were before the first toggle
C5_ToggleRoundTrip ==
  (hist.n = 2 /\ hist.before.penaltyWaiver = 0) =>
    \A l \in Shifts :
      l.id = hist.id =>
        /\ l.netPay = hist.before.netPay
        /\ l.balanceRemaining = hist.before.balanceRemaining
        /\ l.penaltyWaiver = hist.before.penaltyWaiver

\* a penalised shift that was waived and un-waived
C5_WaivedAndUnwaived ==
  /\ hist.n = 2
  /\ hist.before.penaltyWaiver = 0
  /\ hist.before.attendancePenalty > 0

\* C10: in every reachable state every shift has latenessMinutes >= 0,
\* attendancePenalty >= 0, otHours >= 0, otPay >= 0 and, where the build
\* computes it, durationHours >= 0
C10_NonNegative ==
  \A l \in Shifts :
    /\ l.latenessMinutes >= 0
    /\ l.attendancePenalty >= 0
    /\ l.otHours >= 0
    /\ l.otPay >= 0
    /\ "durationHours" \in DOMAIN l => l.durationHours >= 0

\* a shift shorter than nine hours and a manual entry, after an adjustment
C10_ShortShiftEdited ==
  /\ \E l \in Shifts : l.workHours < NINE_HOURS /\ l.standardPay > 0
  /\ \E l \in Shifts : l.adjustmentNote = Some(ManualEntryNote)
  /\ \E l \in Shifts : l.manualAdjustment # 0

\* the arrival's minute of the day and the midnight before it
MinuteOfDay(l) == (l.actualIn % SecondsPerDay) \div SecondsPerMinute
Midnight(l) == l.actualIn - (l.actualIn % SecondsPerDay)
\* 18 and 19 January 2024 are a Thursday and a Friday
OnThuFri(l) == l.date = <<2024, 1, 18>> \/ l.date = <<2024, 1, 19>>
NominalHour(l) == (l.shiftStart - Midnight(l)) \div SecondsPerHour

\* C3: every shift computed from an arrival at minute m of the day has exactly
\* one type: A with start 10:00 when m < 630, C with start 11:00 when
\* 630 <= m <= 750, B when m > 750 with start 15:00 on Thursday and Friday and
\* 14:00 on the other days; the start is on the hour of the arrival's day
C3_Classification ==
  \A l \in Shifts :
    /\ MinuteOfDay(l) \in 0..1439
    /\ l.shiftType \in {"A", "B", "C"}
    /\ l.shiftStart = Midnight(l) + NominalHour(l) * SecondsPerHour
    /\ MinuteOfDay(l) < 630 => l.shiftType = "A" /\ NominalHour(l) = 10
    /\ (630 <= MinuteOfDay(l) /\ MinuteOfDay(l) <= 750) =>
          l.shiftType = "C" /\ NominalHour(l) = 11
    /\ MinuteOfDay(l) > 750 =>
          l.shiftType = "B" /\ NominalHour(l) = (IF OnThuFri(l) THEN 15 ELSE 14)

\* an arrival at 12:30 on a Thursday, classified
C3_HalfPastTwelve ==
  \E l \in Shifts : MinuteOfDay(l) = 750 /\ OnThuFri(l) /\ l.shiftType = "C"

\* the tier table of the attendance penalty
PenaltyTier(t) ==
  IF t < 10 THEN 0
  ELSE IF t < 20 THEN 3 * JD
  ELSE IF t < 60 THEN 5 * JD
  ELSE 10 * JD

\* C4: every computed shift has latenessMinutes = max(0, whole minutes from the
\* nominal start to the arrival), an attendancePenalty of 0, 3, 5 or 10 JD by
\* the tiers [0,10), [10,20), [20,60), [60,..), and a penalty no smaller than
\* the one of a lateness one minute shorter
C4_LatenessAndPenalty ==
  \A l \in Shifts :
    /\ l.latenessMinutes =
         (IF l.actualIn <= l.shiftStart THEN 0
          ELSE (l.actualIn - l.shiftStart) \div SecondsPerMinute)
    /\ l.attendancePenalty = PenaltyTier(l.latenessMinutes)
    /\ l.latenessMinutes > 0 =>
         attendancePenaltyOf(l.latenessMinutes - 1) <= l.attendancePenalty
    /\ l.latenessMinutes = 9 => l.attendancePenalty = 0
    /\ l.latenessMinutes \in {10, 19} => l.attendancePenalty = 3 * JD
    /\ l.latenessMinutes \in {20, 59} => l.attendancePenalty = 5 * JD
    /\ l.latenessMinutes = 60 => l.attendancePenalty = 10 * JD

\* an arrival exactly one hour late
C4_OneHourLate ==
  \E l \in Shifts : l.latenessMinutes = 60 /\ l.attendancePenalty = 10 * JD

\* the rows of the last processed sheet that carry no departure text
LastData == Val(lastRun).data
LastValue == Val(lastRun).value
NoDeparture == \A i \in 1..Len(LastData) : LastData[i].checkOut = <<>>

\* C9: a shift computed from a sheet with a check-in and no check-out has
\* actualOut = actualIn + 9 hours, workHours = 9 hours, otHours = 0, otPay = 0
\* and netPay = 10 JD - attendancePenalty - manualPenalty
C9_NineHourFallback ==
  (runs > 0 /\ NoDeparture) =>
    \A l \in Shifts :
      /\ l.actualOut = l.actualIn + NINE_HOURS
      /\ l.workHours = NINE_HOURS
      /\ l.otHours = 0
      /\ l.otPay = 0
      /\ l.netPay = 10 * JD - l.attendancePenalty - ManualPenaltyOf(l)

\* the arrival at 11:05 with no departure
C9_ArrivalWithoutDeparture ==
  /\ runs > 0
  /\ NoDeparture
  /\ \E l \in Shifts : MinuteOfDay(l) = 665 /\ l.shiftType = "C" /\ l.latenessMinutes = 5

\* what the sheet of the last run says, read off the texts of the batch rows
NameKey(r) == toLowerCase(collapseSpaces(trim(r.name)))
UsableName(r) == NameKey(r) # <<>> /\ NameKey(r) # <<"n", "a", "m", "e">>
DayOfText(t) ==
  IF t \in {Thu18, Thu18Slash} THEN Some(<<2024, 1, 18>>)
  ELSE IF t \in {Fri19, Fri19Quoted} THEN Some(<<2024, 1, 19>>)
  ELSE Null
\* minutes after midnight of the punch texts of the batch rows
ClockOf(t) ==
  CASE t = <<"1", "0", ":", "2", "5">> -> Some(10 * 60 + 25)
    [] t = <<"2", "0", ":", "0", "0">> -> Some(20 * 60)
    [] t = <<"3", ":", "1", "0", " ", "P", "M">> -> Some(15 * 60 + 10)
    [] t = <<"1", "1", ":", "3", "0", " ", "P", "M">> -> Some(23 * 60 + 30)
    [] t = <<"0", "9", ":", "4", "0">> -> Some(9 * 60 + 40)
    [] t = <<"1", "8", ":", "0", "0">> -> Some(18 * 60)
    [] t = <<"1", "5", ":", "1", "0">> -> Some(15 * 60 + 10)
    [] t = <<"0", "9", ":", "0", "0">> -> Some(9 * 60)
    [] t = <<"1", "0", ":", "0", "0">> -> Some(10 * 60)
    [] t = <<"1", "9", ":", "0", "0">> -> Some(19 * 60)
    [] t = <<"3", "5", ":", "0", "0">> -> Some(35 * 60)
    [] OTHER -> Null
\* a one-digit amount of dinars, or nothing
AmountOf(t) == IF Len(t) = 1 /\ IsDigit(t[1]) THEN DigitVal(t[1]) * JD ELSE 0
\* midnight of a day of January 2024; the 18th starts 19740 days after the epoch
MidnightOfDay(day) == (19740 + day[3] - 18) * SecondsPerDay

Passes(r) == UsableName(r) /\ ~IsNull(DayOfText(trim(r.date)))
FailsDate(r) == UsableName(r) /\ IsNull(DayOfText(trim(r.date)))
RowKey(r) == <<NameKey(r), Val(DayOfText(trim(r.date)))>>
ShiftKey(l) == <<toLowerCase(l.name), l.date>>
PassingRows == {i \in 1..Len(LastData) : Passes(LastData[i])}
FailingRows == {i \in 1..Len(LastData) : FailsDate(LastData[i])}
Keys == {RowKey(LastData[i]) : i \in PassingRows}
GroupRows(k) == {i \in PassingRows : RowKey(LastData[i]) = k}
CheckIns(k) ==
  {MidnightOfDay(k[2]) + Val(ClockOf(LastData[i].checkIn)) * SecondsPerMinute :
     i \in {j \in GroupRows(k) : ~IsNull(ClockOf(LastData[j].checkIn))}}
CheckOuts(k) ==
  {MidnightOfDay(k[2]) + Val(ClockOf(LastData[i].checkOut)) * SecondsPerMinute :
     i \in {j \in GroupRows(k) : ~IsNull(ClockOf(LastData[j].checkOut))}}
RECURSIVE PaidSum(_, _)
PaidSum(k, n) ==
  IF n = 0 THEN 0
  ELSE PaidSum(k, n - 1) + (IF n \in GroupRows(k) THEN AmountOf(LastData[n].paid) ELSE 0)
RECURSIVE PenaltySum(_, _)
PenaltySum(k, n) ==
  IF n = 0 THEN 0
  ELSE PenaltySum(k, n - 1) + (IF n \in GroupRows(k) THEN AmountOf(LastData[n].penalty) ELSE 0)
ShiftsOf(k) ==
  {j \in 1..Len(LastValue.detailedLogs) : ShiftKey(LastValue.detailedLogs[j]) = k}
FirstName(k) == collapseSpaces(trim(LastData[SetMin(GroupRows(k))].name))

\* C6: processPayroll returns exactly one shift per (lowercased collapsed name,
\* day) of the rows with a usable name and a parseable date; the shift carries
\* the display name of the first row of its group, the earliest check-in and
\* the latest check-out of the group, and the sums of the group's paid amounts
\* and manual penalties
C6_OneShiftPerGroup ==
  runs > 0 =>
    /\ Len(LastValue.detailedLogs) = Cardinality(Keys)
    /\ \A k \in Keys :
         /\ Cardinality(ShiftsOf(k)) = 1
         /\ \A j \in ShiftsOf(k) :
              /\ LastValue.detailedLogs[j].name = FirstName(k)
              /\ CheckIns(k) # {} =>
                   LastValue.detailedLogs[j].actualIn = SetMin(CheckIns(k))
              /\ (CheckIns(k) # {} /\ CheckOuts(k) # {}) =>
                   LastValue.detailedLogs[j].actualOut = SetMax(CheckOuts(k))
              /\ LastValue.detailedLogs[j].amountPaid = PaidSum(k, Len(LastData))
              /\ "manualPenalty" \in DOMAIN LastValue.detailedLogs[j] =>
                   LastValue.detailedLogs[j].manualPenalty = PenaltySum(k, Len(LastData))

\* three rows of one employee and day, under two spellings, merged
C6_ThreeRowsMerged ==
  /\ runs > 0
  /\ \E k \in Keys :
       /\ Cardinality(GroupRows(k)) = 3
       /\ Cardinality(CheckIns(k)) = 3
       /\ ShiftsOf(k) # {}

\* C7: for every group of rows without a parseable check-in processPayroll
\* returns a shift with workHours, latenessMinutes, otHours, otPay,
\* standardPay, attendancePenalty and netPay zero, type A, amountPaid the sum
\* of the group's paid amounts and balanceRemaining = -amountPaid
C7_PlaceholderKept ==
  runs > 0 =>
    \A k \in Keys :
      CheckIns(k) = {} =>
        \E j \in ShiftsOf(k) :
          /\ LastValue.detailedLogs[j].workHours = 0
          /\ LastValue.detailedLogs[j].latenessMinutes = 0
          /\ LastValue.detailedLogs[j].otHours = 0
          /\ LastValue.detailedLogs[j].otPay = 0
          /\ LastValue.detailedLogs[j].standardPay = 0
          /\ LastValue.detailedLogs[j].attendancePenalty = 0
          /\ LastValue.detailedLogs[j].netPay = 0
          /\ LastValue.detailedLogs[j].shiftType = "A"
          /\ LastValue.detailedLogs[j].amountPaid = PaidSum(k, Len(LastData))
          /\ LastValue.detailedLogs[j].balanceRemaining = -LastValue.detailedLogs[j].amountPaid

\* a group without a check-in, kept as a placeholder with its paid amount
C7_PlaceholderEmitted ==
  /\ runs > 0
  /\ \E k \in Keys :
       /\ CheckIns(k) = {}
       /\ \E j \in ShiftsOf(k) : LastValue.detailedLogs[j].amountPaid > 0

\* C8: processPayroll returns as many cleansing-log entries as the sheet has
\* rows with a usable name and a date text that does not parse, the empty text
\* included and wherever the row stands, and every returned shift belongs to a
\* row whose date parses
C8_DateFailuresLogged ==
  runs > 0 =>
    /\ Len(LastValue.cleansingLogs) = Cardinality(FailingRows)
    /\ \A j \in 1..Len(LastValue.detailedLogs) : ShiftKey(LastValue.detailedLogs[j]) \in Keys

\* a sheet with a row whose date does not parse, and a shift from another row
C8_BadDateAmongGoodRows ==
  /\ runs > 0
  /\ FailingRows # {}
  /\ Len(LastValue.cleansingLogs) = Cardinality(FailingRows)
  /\ LastValue.detailedLogs # <<>>

\* the summaries the mounted view presents
Presented == IF build = "cloud" THEN summaries ELSE filteredSummaries
Worked(l) == l.netPay # 0 \/ l.workHours > 0
WorkedOf(logs, name) ==
  Cardinality({j \in 1..Len(logs) : logs[j].name = name /\ Worked(logs[j])})
MonthOf(l) ==
  IF build = "cloud" THEN monthLabel(<<l.date[1], l.date[2]>>) ELSE MonthNames[l.date[2]]
WorkedIn(logs, month) ==
  Cardinality({j \in 1..Len(logs) : MonthOf(logs[j]) = month /\ Worked(logs[j])})
WorkedDaysOfRun ==
  /\ \A i \in 1..Len(LastValue.summaries) :
       LastValue.summaries[i].workDays
         = WorkedOf(LastValue.detailedLogs, LastValue.summaries[i].name)
  /\ \A i \in 1..Len(LastValue.monthlyStats) :
       LastValue.monthlyStats[i].daysWorked
         = WorkedIn(LastValue.detailedLogs, LastValue.monthlyStats[i].month)
  /\ LastValue.totalDaysWorked
       = Cardinality({j \in 1..Len(LastValue.detailedLogs) : Worked(LastValue.detailedLogs[j])})
WorkedDaysOfView ==
  \A i \in 1..Len(Presented) : Presented[i].workDays = WorkedOf(localLogs, Presented[i].name)

\* C11: a shift is counted as a worked day, in the workDays of its employee's
\* summary (of the run and of the presented view), in the daysWorked of its
\* month and in totalDaysWorked, if and only if netPay # 0 or workHours > 0
C11_WorkedDays ==
  /\ ~IsNull(lastRun) => WorkedDaysOfRun
  /\ Mounted => WorkedDaysOfView
\* a run whose shifts include one with no hours and a net pay that is not zero
C11_UnworkedShiftAggregated ==
  /\ Mounted
  /\ \E l \in Shifts : l.workHours = 0 /\ l.netPay < 0

\* some row of the run has an arrival
Arrived == \E i \in 1..Len(LastData) : LastData[i].checkIn # <<>>
\* the worked minutes of a shift
WorkedMinutes(l) == (l.actualOut - l.actualIn) \div SecondsPerMinute

\* C12: every shift computed from an arrival has workHours = its worked time,
\* otHours = max(0, workHours - 9), standardPay = 10, an overtime pay of
\* max(0, w - 540) * 1.56 / 60 for its w worked minutes, and the net pay
\* 10 + otPay - attendancePenalty - manualPenalty
C12_OvertimeAndNetPay ==
  (Mounted /\ Arrived) =>
    \A l \in Shifts :
      /\ l.workHours = WorkedMinutes(l) * SecondsPerMinute
      /\ l.otHours = Max2(0, l.workHours - 9 * SecondsPerHour)
      /\ l.standardPay = 10 * JD
      /\ l.otPay * 100 = Max2(0, WorkedMinutes(l) - 540) * 156 * (JD \div 60)
      /\ WorkedMinutes(l) <= 540 => l.otPay = 0
      /\ l.netPay = 10 * JD + l.otPay - l.attendancePenalty - ManualPenaltyOf(l)
\* a shift of 9 hours 35 minutes with a manual penalty
C12_OvertimeWithPenalty ==
  /\ Mounted
  /\ \E l \in Shifts : WorkedMinutes(l) = 575 /\ l.otPay > 0 /\ ManualPenaltyOf(l) > 0

\* a step that runs processPayroll again on the rows of the run before
RerunOnSameRows ==
  /\ ~IsNull(lastRun)
  /\ runs' = runs + 1
  /\ Val(lastRun').data = LastData

\* C13: a run of processPayroll on the same raw rows as the run before yields
\* an identical PayrollResult, the ids of the shifts and every aggregate included
C13_RerunIdentical ==
  [][RerunOnSameRows => Val(lastRun').value = LastValue]_vars
\* a second run with as many shifts as the first
C13_SecondRunWithShifts ==
  /\ runs = 2
  /\ LastValue.detailedLogs # <<>>
  /\ drawn = 2 * Len(LastValue.detailedLogs)

\* the last run of processPayroll yielded no shift
ZeroShifts == ~IsNull(lastRun) /\ LastValue.detailedLogs = <<>>

\* C14: after a run of processPayroll that yields no shift the error state is
\* set and carries the cleansing log of the run, the result of the run is not
\* published, and the audit is not awaited
C14_ZeroShiftsCarryLog ==
  ZeroShifts =>
    /\ ~IsNull(error)
    /\ Val(error).logs = Some(LastValue.cleansingLogs)
    /\ result # Some(LastValue)
    /\ pc = "idle"
    /\ isLoading = FALSE
\* a run without a shift whose cleansing log has an entry
C14_EveryRowDropped == ZeroShifts /\ LastValue.cleansingLogs # <<>>

\* the last run of processPayroll yielded shifts
SomeShifts == ~IsNull(lastRun) /\ LastValue.detailedLogs # <<>>

\* C15: the result of a run with shifts is published when the audit is awaited
\* and stays published whatever the audit does; no failure of the audit sets
\* the error state, and once the audit has settled isLoading is false
C15_AuditFailureHarmless ==
  SomeShifts =>
    /\ result = Some(LastValue)
    /\ error = Null
    /\ pc = "idle" => isLoading = FALSE
\* a run with shifts whose audit has settled as a failure
C15_AuditFailed ==
  /\ SomeShifts
  /\ pc = "idle"
  /\ auditReport \in {Null, Some("Audit Engine Offline."), Some("Audit generation failed.")}

\* the answers that supply no input: Cancel, or nothing typed
NoReason == {Null, Some(<<>>)}
\* an adjustment without an amount, with an amount that is no number, or
\* without a reason
NoAdjustmentInput(amount, reason) ==
  IsNull(amount) \/ amount = Some(<<"x">>) \/ reason \in NoReason

\* C16: a manual adjustment cancelled at the amount, given an amount that is no
\* number, or given a cancelled or empty reason, a waiver whose reason is
\* cancelled or empty, and a cancelled note leave every shift as it was
C16_NoInputNoOp ==
  [][\A id \in Ids :
       /\ \A amount \in AmountAnswers, reason \in ReasonAnswers :
            (NoAdjustmentInput(amount, reason) /\ applyOtherPenalty(id, amount, reason))
              => localLogs' = localLogs
       /\ \A reason \in NoReason :
            (ShiftById(localLogs, id).penaltyWaiver = 0 /\ removePenalty(id, reason))
              => localLogs' = localLogs
       /\ addManagerNote(id, Null) => localLogs' = localLogs]_vars
\* a shift waived with an empty reason
C16_WaivedWithoutReason ==
  \E l \in Shifts : l.adjustmentNote = Some(WaivedPrefix)

\* the shift of the two waiting updaters before and after the render
Raced == ShiftById(localLogs, queue[1].id)
RacedAfter == ShiftById(localLogs', queue[1].id)
RaceOps == {queue[1].op, queue[2].op}
Flipped == (RacedAfter.penaltyWaiver > 0) # (Raced.penaltyWaiver > 0)

\* C17: when two edits of one shift wait for the same render, both take
\* effect: two toggles leave the waiver as it was, a toggle and an adjustment
\* leave the waiver flipped and the adjustment added, a toggle and a note leave
\* the waiver flipped and the note set
C17_RacingEditsSerialized ==
  [][(render /\ Len(queue) = 2 /\ queue[1].id = queue[2].id) =>
       /\ RaceOps \in {{"toggleWaiver"}, {"removePenalty"}} =>
            RacedAfter.penaltyWaiver = Raced.penaltyWaiver
       /\ RaceOps = {"removePenalty", "applyOtherPenalty"} =>
            /\ RacedAfter.manualAdjustment = Raced.manualAdjustment + Val(parseFloat(<<"2">>))
            /\ Raced.attendancePenalty > 0 => Flipped
       /\ RaceOps = {"toggleWaiver", "addManagerNote"} =>
            /\ RacedAfter.adjustmentNote = Some(<<"n">>)
            /\ Raced.attendancePenalty > 0 => Flipped]_vars
\* two different edits of one penalised shift wait for the same render
C17_TwoEditsPending ==
  /\ Len(queue) = 2
  /\ queue[1].id = queue[2].id
  /\ queue[1].op # queue[2].op
  /\ queue[1].seen = localLogs /\ queue[2].seen = localLogs
  /\ ShiftById(localLogs, queue[1].id).attendancePenalty > 0

\* the rows of the run that yield no record: no usable name, or no date
DroppedRows == {i \in 1..Len(LastData) : ~Passes(LastData[i])}

\* C18: every row dropped for an empty name, a header literal as name or a
\* date that does not parse appends one entry to the cleansing log, so the log
\* has as many entries as there are dropped rows, and the rows after a dropped
\* row are still processed
C18_EveryDropLogged ==
  runs > 0 =>
    /\ Len(LastValue.cleansingLogs) = Cardinality(DroppedRows)
    /\ \A k \in Keys : CheckIns(k) # {} => ShiftsOf(k) # {}
\* a header row dropped from a sheet that yields a shift
C18_HeaderRowAmongRows ==
  /\ runs > 0
  /\ \E i \in DroppedRows : NameKey(LastData[i]) = <<"n", "a", "m", "e">>
  /\ LastValue.detailedLogs # <<>>

\* where a name is first met in a list of shifts
FirstMet(logs, name) == SetMin({k \in 1..Len(logs) : logs[k].name = name})
\* a list of summaries is the ranking of a list of shifts
Ranking(sums, logs) ==
  /\ \A i \in 1..Len(sums) : sums[i].rank = i
  /\ \A i, j \in 1..Len(sums) : i < j => sums[i].netSalary >= sums[j].netSalary
  /\ \A i, j \in 1..Len(sums) : sums[i].name = sums[j].name => i = j
  /\ {sums[i].name : i \in 1..Len(sums)} = {logs[k].name : k \in 1..Len(logs)}
  /\ \A i, j \in 1..Len(sums) :
       (i < j /\ sums[i].netSalary = sums[j].netSalary)
         => FirstMet(logs, sums[i].name) < FirstMet(logs, sums[j].name)

\* C19: the summaries of a run, and those presented, are ordered by netSalary
\* non-increasing, the i-th has rank i, there is exactly one per employee
\* name, and employees of equal netSalary keep the order in which the shift
\* list first meets them
C19_RankedSummaries ==
  /\ ~IsNull(lastRun) => Ranking(LastValue.summaries, LastValue.detailedLogs)
  /\ Mounted => Ranking(Presented, localLogs)
\* two employees of equal net salary, and a third of another
C19_TieAmongThree ==
  /\ Mounted
  /\ Len(Presented) = 3
  /\ Presented[1].netSalary > Presented[2].netSalary
  /\ Presented[2].netSalary = Presented[3].netSalary

\* the mounted view holds the shifts of the published result, as edited
ListOfResult ==
  /\ Mounted
  /\ result = Some(LastValue)
  /\ \A j \in 1..Len(LastValue.detailedLogs) : LastValue.detailedLogs[j].id \in Ids
\* the net pay of the current shifts of one name, of one month, after a day
NetOfName(name) == Total(SelectSeq(localLogs, LAMBDA l : l.name = name), "netPay")
NetOfMonth(month) == Total(SelectSeq(localLogs, LAMBDA l : MonthOf(l) = month), "netPay")
NetAfter(today) ==
  Total(SelectSeq(localLogs, LAMBDA l : MidnightOfDay(l.date) > today), "netPay")
\* what the cloud view shows of the result it was mounted with;
\* src/unnamed/part_001:170, 178 and 370
ShownMonths == Val(result).monthlyStats
ShownEfficiency == Val(result).efficiencyScore
ShownLiability == Val(result).insights.totalFutureLiability

\* C20: after manager edits the presented aggregates are those of the current
\* shifts: the netSalary of every summary, the netPay of every monthly
\* statistic, the efficiency score and the future liability
C20_AggregatesFollowEdits ==
  ListOfResult =>
    /\ \A i \in 1..Len(Presented) : Presented[i].netSalary = NetOfName(Presented[i].name)
    /\ build = "cloud" =>
         /\ \A i \in 1..Len(ShownMonths) : ShownMonths[i].netPay = NetOfMonth(ShownMonths[i].month)
         /\ ShownEfficiency =
              efficiencyOf(Total(localLogs, "attendancePenalty") + Total(localLogs, "manualPenalty"),
                           Len(SelectSeq(localLogs, counted)))
         /\ ShownLiability = NetAfter(Val(Val(lastRun).today))
\* a waived shift in the view of the published result
C20_WaivedShiftPresented ==
  /\ ListOfResult
  /\ \E l \in Shifts : l.penaltyWaiver > 0

\* the ids of the shifts of the last run
RunIds == {LastValue.detailedLogs[j].id : j \in 1..Len(LastValue.detailedLogs)}

\* C21: whenever the result of the last run is the published one, the list the
\* view shows, edits and aggregates holds the shifts of that result, not
\* those of a result before it
C21_ViewFollowsResult ==
  (Mounted /\ result = Some(LastValue)) => RunIds \subseteq Ids
\* a second result published over a first one
C21_ResultReplaced ==
  /\ runs = 2
  /\ Mounted
  /\ result = Some(LastValue)
  /\ \A id \in RunIds : id > Len(LastValue.detailedLogs)

\* one day is before another
DayBefore(a, b) ==
  \/ a[1] < b[1]
  \/ a[1] = b[1] /\ a[2] < b[2]
  \/ a[1] = b[1] /\ a[2] = b[2] /\ a[3] < b[3]
\* a list of shifts is in the order of its dates and, within a date, of its names
DateThenNameOrder(logs) ==
  \A i, j \in 1..Len(logs) :
    i < j => \/ DayBefore(logs[i].date, logs[j].date)
             \/ logs[i].date = logs[j].date /\ localeCompare(logs[i].name, logs[j].name) <= 0

\* C22: the detailedLogs of every run, and the list of the view after entries
\* and edits, are sorted by date ascending and, within a date, by employee name
C22_LedgerSorted ==
  /\ ~IsNull(lastRun) => DateThenNameOrder(LastValue.detailedLogs)
  /\ DateThenNameOrder(localLogs)
\* rows given latest date first, and two shifts from them
C22_RowsOutOfOrder ==
  /\ ~IsNull(lastRun)
  /\ Len(LastData) = 2
  /\ LastData[1].date = Fri19 /\ LastData[2].date = Thu18Slash
  /\ Len(LastValue.detailedLogs) = 2

\* the penalties of the shifts of a run
PenaltiesOfRun ==
  Total(LastValue.detailedLogs, "attendancePenalty")
    + Total([i \in 1..Len(LastValue.detailedLogs) |->
               [manualPenalty |-> ManualPenaltyOf(LastValue.detailedLogs[i])]],
            "manualPenalty")
\* ten JD for each day counted as worked, one JD when none is
DivisorOfRun ==
  IF LastValue.totalDaysWorked = 0 THEN JD ELSE LastValue.totalDaysWorked * 10 * JD

\* C23: the efficiency score of a run is 1 - penalties / (workedDays * 10), the
\* divisor being 1 when no day is counted as worked; a run without penalties
\* scores exactly 1
C23_EfficiencyScore ==
  ~IsNull(lastRun) =>
    /\ LastValue.efficiencyScore.penalties = PenaltiesOfRun
    /\ LastValue.efficiencyScore.base = DivisorOfRun
    /\ PenaltiesOfRun = 0 => LastValue.efficiencyScore.penalties = 0
\* a run with penalties and no day counted as worked
C23_PenaltiesWithoutWorkedDay ==
  /\ ~IsNull(lastRun)
  /\ LastValue.totalDaysWorked = 0
  /\ PenaltiesOfRun > 0

\* what a waiver toggle does to the shift it is addressed to
Toggles(id) ==
  LET before == ShiftById(localLogs, id)
      after == ShiftById(localLogs', id)
  IN /\ before.penaltyWaiver = 0 => after.penaltyWaiver = before.attendancePenalty
     /\ before.penaltyWaiver # 0 => after.penaltyWaiver = 0
     /\ after.attendancePenalty = before.attendancePenalty
C24_WaiverZeroOrPenalty ==
  \A l \in Shifts : l.penaltyWaiver = 0 \/ l.penaltyWaiver = l.attendancePenalty
C24_ToggleSetsWaiver ==
  \A id \in Ids :
    /\ toggleWaiver(id) => Toggles(id)
    /\ \A reason \in ReasonAnswers :
         (removePenalty(id, reason)
            /\ (ShiftById(localLogs, id).penaltyWaiver # 0 \/ ~IsNull(reason)))
           => Toggles(id)

\* C24: a waiver toggle of an unwaived shift sets penaltyWaiver to the shift's
\* attendancePenalty and a toggle of a waived shift sets it to 0, so that in
\* every reachable state penaltyWaiver is 0 or attendancePenalty; no toggle
\* changes attendancePenalty
C24_WaiverToggle == []C24_WaiverZeroOrPenalty /\ [][C24_ToggleSetsWaiver]_vars
\* a waived shift whose penalty is less than its standard pay
C24_WaivedPenalty ==
  \E l \in Shifts :
    /\ l.penaltyWaiver > 0
    /\ l.penaltyWaiver = l.attendancePenalty
    /\ l.attendancePenalty < l.standardPay

\* the note trail after one more entry
TrailAfter(note, text) ==
  IF IsNull(note) \/ Val(note) = <<>> THEN text ELSE Val(note) \o <<" ", "|", " ">> \o text
\* the trail of a shift, empty when it has none
TrailOf(l) == IF IsNull(l.adjustmentNote) THEN <<>> ELSE Val(l.adjustmentNote)
\* the net pay of a shift without its adjustments
UnadjustedNet(l) == l.standardPay + l.otPay - l.attendancePenalty + l.penaltyWaiver
\* an adjustment of amount and reason that is applied
Applies(amount, reason) ==
  /\ ~IsNull(amount) /\ ~IsNull(parseFloat(Val(amount)))
  /\ ~IsNull(reason) /\ Val(reason) # <<>>
\* an applied adjustment adds its amount and appends its reason
C25_AdjustmentAdds ==
  \A id \in Ids, amount \in AmountAnswers, reason \in TrailReasons :
    (Applies(amount, reason) /\ applyOtherPenalty(id, amount, reason)) =>
      LET before == ShiftById(localLogs, id)
          after == ShiftById(localLogs', id)
          a == Val(parseFloat(Val(amount)))
      IN /\ after.manualAdjustment = before.manualAdjustment + a
         /\ after.netPay = before.netPay - a
         /\ TrailOf(after) = TrailAfter(before.adjustmentNote, Val(reason))
\* a waiver toggle keeps the adjustments and the trail written so far
C25_ToggleKeepsTrail ==
  \A id \in Ids, reason \in TrailReasons :
    removePenalty(id, reason) =>
      LET before == ShiftById(localLogs, id)
          after == ShiftById(localLogs', id)
      IN /\ after.manualAdjustment = before.manualAdjustment
         /\ after.netPay - after.penaltyWaiver = before.netPay - before.penaltyWaiver
         /\ Len(TrailOf(after)) >= Len(TrailOf(before))
         /\ SubSeq(TrailOf(after), 1, Len(TrailOf(before))) = TrailOf(before)
\* a shift starts without adjustment, and the net pay of an adjusted shift is
\* lower by its adjustments
C25_NetLowerBySum ==
  \A l \in Shifts :
    /\ l.manualAdjustment # 0 => l.netPay = UnadjustedNet(l) - l.manualAdjustment
    /\ TrailOf(l) = <<>> => l.manualAdjustment = 0

Departed ==
  {j \in 1..Len(LastValue.detailedLogs) :
     /\ CheckIns(ShiftKey(LastValue.detailedLogs[j])) # {}
     /\ CheckOuts(ShiftKey(LastValue.detailedLogs[j])) # {}}
FirstIn(j) == SetMin(CheckIns(ShiftKey(LastValue.detailedLogs[j])))
LastOut(j) == SetMax(CheckOuts(ShiftKey(LastValue.detailedLogs[j])))
\* the departure of a shift is its latest check-out, a day later when that is
\* before the first check-in
C26_DayAdded ==
  ~IsNull(lastRun) =>
    \A j \in Departed :
      LastValue.detailedLogs[j].actualOut
        = (IF LastOut(j) < FirstIn(j) THEN LastOut(j) + SecondsPerDay ELSE LastOut(j))
\* the departure is not before the arrival and less than a day after it
C26_WithinADay ==
  ~IsNull(lastRun) =>
    \A j \in Departed :
      /\ LastValue.detailedLogs[j].actualOut >= LastValue.detailedLogs[j].actualIn
      /\ LastValue.detailedLogs[j].workHours >= 0
      /\ LastValue.detailedLogs[j].workHours < 24 * SecondsPerHour

\* C26: a latest check-out before the earliest check-in is moved forward by 24
\* hours and no other check-out is moved, so that every shift with a parsed
\* check-out has actualOut >= actualIn and 0 <= workHours < 24
C26_OvernightShift == C26_DayAdded /\ C26_WithinADay
\* a run with a shift whose check-out was moved to the next day
C26_ShiftOverMidnight ==
  /\ ~IsNull(lastRun)
  /\ \E j \in Departed : LastOut(j) < FirstIn(j)

\* no row of the last run carries a penalty amount
NoManualPenalty == \A i \in 1..Len(LastData) : LastData[i].penalty = <<>>

\* C27: on rows without manual penalties the efficiency score of a run is
\* within [0, 1]: the attendance penalties of its shifts are at most 10 for
\* each day counted as worked
C27_ScoreWithinUnit ==
  (~IsNull(lastRun) /\ NoManualPenalty) =>
    /\ LastValue.efficiencyScore.penalties >= 0
    /\ LastValue.efficiencyScore.penalties <= LastValue.efficiencyScore.base
    /\ Total(LastValue.detailedLogs, "attendancePenalty")
         <= 10 * JD * LastValue.totalDaysWorked
\* a run on rows without manual penalties with a penalised shift of no length
C27_PenalisedZeroLength ==
  /\ ~IsNull(lastRun)
  /\ NoManualPenalty
  /\ \E j \in 1..Len(LastValue.detailedLogs) :
       /\ LastValue.detailedLogs[j].workHours = 0
       /\ LastValue.detailedLogs[j].attendancePenalty > 0

\* the nominal start of a shift of type C or B: 11:00, and 14:00 or, on the
\* Thursday 18 and the Friday 19 of January 2024, 15:00
NominalStart(l) ==
  MidnightOfDay(l.date)
    + (IF l.shiftType = "C" THEN 11 ELSE IF l.date[3] \in {18, 19} THEN 15 ELSE 14)
      * SecondsPerHour

\* C28: a shift of type A of a run is at most 29 minutes late and has the
\* penalty 0, 3 or 5; the penalty 10 falls on shifts of type C, which are at
\* most 90 minutes late, and of type B only; an arrival of type B or C that is
\* not after its nominal start has lateness 0 and penalty 0
C28_PenaltyTiersByType ==
  ~IsNull(lastRun) =>
    \A j \in 1..Len(LastValue.detailedLogs) :
      LET l == LastValue.detailedLogs[j]
      IN /\ l.shiftType = "A" =>
              /\ l.latenessMinutes <= 29
              /\ l.attendancePenalty \in {0, 3 * JD, 5 * JD}
         /\ l.attendancePenalty = 10 * JD => l.shiftType \in {"B", "C"}
         /\ l.shiftType = "C" => l.latenessMinutes <= 90
         /\ (l.shiftType \in {"B", "C"} /\ l.actualIn <= NominalStart(l)) =>
              /\ l.latenessMinutes = 0
              /\ l.attendancePenalty = 0
\* a shift of type C with the penalty 10
C28_LateMiddayShift ==
  /\ ~IsNull(lastRun)
  /\ \E j \in 1..Len(LastValue.detailedLogs) :
       /\ LastValue.detailedLogs[j].shiftType = "C"
       /\ LastValue.detailedLogs[j].attendancePenalty = 10 * JD

\* a specific month and a custom range are not active together
C29_MonthOrRange ==
  filters.selectedMonth # AllMonths =>
    filters.customRange.start = <<>> /\ filters.customRange.end = <<>>
\* clearFilters leaves the four filters as a new view has them
C29_Cleared ==
  clearFilters =>
    /\ filters'.selectedMonth = <<"A", "l", "l", " ", "M", "o", "n", "t", "h", "s">>
    /\ filters'.selectedEmployee
         = <<"A", "l", "l", " ", "E", "m", "p", "l", "o", "y", "e", "e", "s">>
    /\ filters'.searchTerm = <<>>
    /\ filters'.customRange = [start |-> <<>>, end |-> <<>>]
    /\ filters' = InitialFilters

\* C29: after any sequence of handleMonthChange, handleRangeChange and
\* clearFilters a selected month other than 'All Months' has both ends of the
\* custom range empty, and clearFilters restores the four initial filters
C29_FiltersExclusive == []C29_MonthOrRange /\ [][C29_Cleared]_vars
\* a month and an employee are selected in the view that has a custom range
C29_MonthSelected ==
  /\ build = "cloud"
  /\ filters.selectedMonth # AllMonths
  /\ filters.selectedEmployee # AllEmployees

\* a shift with the five fields an edit may write taken from another
WithEditable(l, from) ==
  [l EXCEPT !.penaltyWaiver = from.penaltyWaiver, !.manualAdjustment = from.manualAdjustment,
            !.adjustmentNote = from.adjustmentNote, !.netPay = from.netPay,
            !.balanceRemaining = from.balanceRemaining]
\* the list keeps its length, its ids and its order, every shift but id is as
\* it was, and the shift id differs in the five fields at most
OnlyEdits(id) ==
  /\ Len(localLogs') = Len(localLogs)
  /\ \A i \in 1..Len(localLogs) :
       /\ localLogs'[i].id = localLogs[i].id
       /\ localLogs[i].id # id => localLogs'[i] = localLogs[i]
       /\ localLogs[i].id = id => WithEditable(localLogs'[i], localLogs[i]) = localLogs[i]
C30_EditOfOneShift ==
  \A id \in Ids :
    /\ toggleWaiver(id) => OnlyEdits(id)
    /\ \A note \in NoteAnswers : addManagerNote(id, note) => OnlyEdits(id)
    /\ \A amount \in AmountAnswers, reason \in TrailReasons :
         applyOtherPenalty(id, amount, reason) => OnlyEdits(id)
    /\ \A reason \in TrailReasons : removePenalty(id, reason) => OnlyEdits(id)
C30_NoShiftRemoved ==
  (\E newEntry \in EntryForms : handleAddEntry(newEntry)) =>
    \A i \in 1..Len(localLogs) : \E j \in 1..Len(localLogs') : localLogs'[j] = localLogs[i]

\* C30: a waiver toggle, a manual adjustment and a manager note addressed to
\* one shift change that shift only, and on it only penaltyWaiver,
\* manualAdjustment, adjustmentNote, netPay and balanceRemaining; the number,
\* the ids and the order of the shifts stay, and no manager action removes a
\* shift
C30_EditFrame == [][C30_EditOfOneShift /\ C30_NoShiftRemoved]_vars
\* two shifts, one waived and with a note, the other as the run made it
C30_OneOfTwoEdited ==
  /\ Len(localLogs) = 2
  /\ \E i, j \in 1..2 :
       /\ localLogs[i].adjustmentNote # Null
       /\ localLogs[i].penaltyWaiver > 0
       /\ localLogs[j].manualAdjustment = 0
       /\ localLogs[j].penaltyWaiver = 0
       /\ localLogs[j].adjustmentNote = Null

====
